---------------------------- MODULE Spec2Model ----------------------------
(***************************************************************************)
(* A model of AdeptSim, an RV32I instruction-set simulator: the            *)
(* instruction classifier (riscv/isa.rs), the decoder and its              *)
(* pseudo-instructions (riscv/decoder.rs), the register file               *)
(* (register_file.rs), the banked memory (mem.rs) and the ALU (alu.rs).    *)
(*                                                                         *)
(* A 32-bit word (u32, or i32 seen as its bit pattern) is the set of the   *)
(* positions 0..31 of its one bits, so that the masks, shifts and casts of *)
(* the source are modelled bit for bit; narrow values (u8, indices) and    *)
(* the decoded immediates (i32) are integers.                              *)
(***************************************************************************)
EXTENDS Integers, Sequences, FiniteSets, TLC

VARIABLES
    raw_instr,      \* decoder: the 32-bit word handed to Instruction::new
    decoded,        \* decoder: the Instruction it returned
    dec_pc,         \* decoder: "fetched" before Instruction::new, "decoded" after
    registers,      \* RegisterFile.registers: Vec<i32> of 31 slots, index 0..30
    rf_call,        \* register file: the last call and its arguments
    rf_ret,         \* register file: the pair returned by the last read
    rf_panicked,    \* register file: a Vec index was out of bounds
    rf_shadow,      \* history: per register id, the data of the last write call
    rf_writes,      \* number of write calls so far
    bank_0, bank_1, bank_2, bank_3, \* Memory: the four byte banks
    mem_call,       \* memory: the last call and its arguments
    mem_ret,        \* memory: the value returned by the last load or fetch
    mem_panicked,   \* memory: the last call ended in panic!
    mem_ops,        \* number of calls on the memory so far
    overflow_checks,\* build profile: are arithmetic overflow checks compiled in
    alu_in,         \* alu: the mnemonic and the operands of the call
    alu_ret,        \* alu: the i32 returned
    alu_panicked,   \* alu: the call ended in a panic
    alu_pc,         \* alu: "ready" before the call, "done" after
    pseudo,         \* disassembler: the PseudoInstrWith1Instr found
    dis_pc,         \* disassembler: "start", "collapsed", "rendered"
    rendered,       \* disassembler: the text written by Display::fmt, in pieces
    eq_in,          \* equality: the two words whose Instructions are compared
    eq_ret,         \* equality: what Instruction::eq returned
    eq_pc,          \* equality: "ready" before the comparison, "done" after
    sim_bin,        \* simulator: the binary run, "main" or "simulator"
    sim_chunks,     \* simulator: mem_data, the chunks read from the ELF file
    sim_mem,        \* simulator: my_mem, the four banks
    sim_pc,         \* simulator: pc
    sim_state,      \* simulator: "loading", "running", "halted", "panicked"
    sim_rows,       \* history: the number of rows printed, up to MaxRows
    sim_last        \* history: the pc and the Instruction of the last row

dec_vars == <<raw_instr, decoded, dec_pc>>
rf_vars  == <<registers, rf_call, rf_ret, rf_panicked, rf_shadow, rf_writes>>
mem_vars == <<bank_0, bank_1, bank_2, bank_3, mem_call, mem_ret, mem_panicked, mem_ops>>
alu_vars == <<overflow_checks, alu_in, alu_ret, alu_panicked, alu_pc>>
dis_vars == <<pseudo, dis_pc, rendered, eq_in, eq_ret, eq_pc>>
sim_vars == <<sim_bin, sim_chunks, sim_mem, sim_pc, sim_state, sim_rows, sim_last>>
vars     == <<dec_vars, rf_vars, mem_vars, alu_vars, dis_vars, sim_vars>>

-----------------------------------------------------------------------------
(* 32-bit words as sets of bit positions *)

\* Option<T>: None is the empty sequence, Some(v) the one-element sequence
None == <<>>
Some(v) == <<v>>

\* bit i of the natural number n
BitOf(n, i) == (n \div (2 ^ i)) % 2

\* the word whose bits base.. are those of the natural number n < 2^16
BitsAt(n, base) == {i + base : i \in {j \in 0..15 : BitOf(n, j) = 1}}

\* the u32 literal 0xHHHH_LLLL
W(hi, lo) == BitsAt(lo, 0) \cup BitsAt(hi, 16)

\* the value of a set of bit positions below 31
RECURSIVE SumBits(_)
SumBits(S) ==
    IF S = {} THEN 0
    ELSE LET i == CHOOSE j \in S : TRUE IN (2 ^ i) + SumBits(S \ {i})

\* a & b, a | b on u32 / i32
BitAnd(a, b) == a \cap b
BitOr(a, b) == a \cup b

\* a >> n on u32 (logical)
Shr(a, n) == {i - n : i \in {j \in a : j >= n}}

\* a >> n on i32 (arithmetic: the sign bit is replicated)
Sar(a, n) == Shr(a, n) \cup (IF 31 \in a THEN (32 - n)..31 ELSE {})

\* a << n on u32 / i32 (bits shifted out are lost)
Shl(a, n) == {i + n : i \in {j \in a : j + n <= 31}}

\* `as u8`: the low eight bits, as a number
AsU8(a) == SumBits(a \cap (0..7))

\* a word below 2^31 as a number (`as usize` of a masked address)
AsNat(a) == SumBits(a)

\* the i32 value of a bit pattern (two's complement)
AsI32(a) == (IF 31 \in a THEN -2147483647 - 1 ELSE 0) + SumBits(a \ {31})

\* u32::from(b) / widening of a byte to a word
FromU8(b) == BitsAt(b, 0)

-----------------------------------------------------------------------------
(* riscv/mod.rs: the major opcodes *)

RV32_OP_CODES_ARITH_IMM == \h13
RV32_OP_CODES_ARITH_REG == \h33
RV32_OP_CODES_MEM_LD == \h03
RV32_OP_CODES_MEM_ST == \h23
RV32_OP_CODES_BR == \h63
RV32_OP_CODES_JALR == \h67
RV32_OP_CODES_JAL == \h6f
RV32_OP_CODES_AUIPC == \h17
RV32_OP_CODES_LUI == \h37

-----------------------------------------------------------------------------
(* riscv/isa.rs: the classifier *)

\* RVT::new taking JALR for a J format like JAL (a faulty variant of RVT_new)
RVT_new_JalrAsJ(op_code) ==
    CASE op_code = RV32_OP_CODES_LUI -> "U"
      [] op_code = RV32_OP_CODES_AUIPC -> "U"
      [] op_code = RV32_OP_CODES_JAL -> "J"
      [] op_code = RV32_OP_CODES_JALR -> "J"
      [] op_code = RV32_OP_CODES_BR -> "B"
      [] op_code = RV32_OP_CODES_MEM_LD -> "I"
      [] op_code = RV32_OP_CODES_MEM_ST -> "S"
      [] op_code = RV32_OP_CODES_ARITH_REG -> "R"
      [] op_code = RV32_OP_CODES_ARITH_IMM -> "I"
      [] OTHER -> "Invalid"

\* RVT::new
RVT_new(op_code) ==
    CASE op_code = RV32_OP_CODES_LUI -> "U"
      [] op_code = RV32_OP_CODES_AUIPC -> "U"
      [] op_code = RV32_OP_CODES_JAL -> "J"
      [] op_code = RV32_OP_CODES_JALR -> "I"
      [] op_code = RV32_OP_CODES_BR -> "B"
      [] op_code = RV32_OP_CODES_MEM_LD -> "I"
      [] op_code = RV32_OP_CODES_MEM_ST -> "S"
      [] op_code = RV32_OP_CODES_ARITH_REG -> "R"
      [] op_code = RV32_OP_CODES_ARITH_IMM -> "I"
      [] OTHER -> "Invalid"

\* RV32I::new
RV32I_new(op_code, funct3, option_op) ==
    CASE op_code = RV32_OP_CODES_LUI -> "LUI"
      [] op_code = RV32_OP_CODES_AUIPC -> "AUIPC"
      [] op_code = RV32_OP_CODES_JAL -> "JAL"
      [] op_code = RV32_OP_CODES_JALR ->
            (CASE funct3 = 0 -> "JALR"
               [] OTHER -> "Invalid")
      [] op_code = RV32_OP_CODES_BR ->
            (CASE funct3 = 0 -> "BEQ"
               [] funct3 = 1 -> "BNE"
               [] funct3 = 4 -> "BLT"
               [] funct3 = 5 -> "BGE"
               [] funct3 = 6 -> "BLTU"
               [] funct3 = 7 -> "BGEU"
               [] OTHER -> "Invalid")
      [] op_code = RV32_OP_CODES_MEM_LD ->
            (CASE funct3 = 0 -> "LB"
               [] funct3 = 1 -> "LH"
               [] funct3 = 2 -> "LW"
               [] funct3 = 4 -> "LBU"
               [] funct3 = 5 -> "LHU"
               [] OTHER -> "Invalid")
      [] op_code = RV32_OP_CODES_MEM_ST ->
            (CASE funct3 = 0 -> "SB"
               [] funct3 = 1 -> "SH"
               [] funct3 = 2 -> "SW"
               [] OTHER -> "Invalid")
      [] op_code = RV32_OP_CODES_ARITH_REG ->
            (CASE funct3 = 0 -> (IF ~option_op THEN "ADD" ELSE "SUB")
               [] funct3 = 1 -> "SLL"
               [] funct3 = 2 -> "SLT"
               [] funct3 = 3 -> "SLTU"
               [] funct3 = 4 -> "XOR"
               [] funct3 = 5 -> (IF option_op THEN "SRA" ELSE "SRL")
               [] funct3 = 6 -> "OR"
               [] funct3 = 7 -> "AND"
               [] OTHER -> "Invalid")
      [] op_code = RV32_OP_CODES_ARITH_IMM ->
            (CASE funct3 = 0 -> "ADDI"
               [] funct3 = 1 -> "SLLI"
               [] funct3 = 2 -> "SLTI"
               [] funct3 = 3 -> "SLTIU"
               [] funct3 = 4 -> "XORI"
               [] funct3 = 5 -> (IF option_op THEN "SRAI" ELSE "SRLI")
               [] funct3 = 6 -> "ORI"
               [] funct3 = 7 -> "ANDI"
               [] OTHER -> "Invalid")
      [] OTHER -> "Invalid"

\* InstrType::new
InstrType_new(op_code, funct3, option_op) ==
    [instr_type |-> RVT_new(op_code),
     instr_op |-> RV32I_new(op_code, funct3, option_op)]

\* InstrType::has_option
has_option(instr) ==
    instr.instr_op = "SLLI" \/ instr.instr_op = "SRLI" \/ instr.instr_op = "SRAI"

\* InstrType::has_rd
has_rd(instr) ==
    instr.instr_type = "R" \/ instr.instr_type = "I" \/ instr.instr_type = "U"
        \/ instr.instr_type = "J"

\* InstrType::has_rs1
has_rs1(instr) ==
    instr.instr_type = "R" \/ instr.instr_type = "I" \/ instr.instr_type = "S"
        \/ instr.instr_type = "B"

\* InstrType::has_rs2 answering for the I format too (a faulty variant of has_rs2)
has_rs2_WithI(instr) ==
    instr.instr_type = "R" \/ instr.instr_type = "S" \/ instr.instr_type = "B"
        \/ instr.instr_type = "I"

\* InstrType::has_rs2
has_rs2(instr) ==
    instr.instr_type = "R" \/ instr.instr_type = "S" \/ instr.instr_type = "B"

-----------------------------------------------------------------------------
(* riscv/decoder.rs: the decoder *)

\* the I-format immediate read from bits 31:21 only (a faulty variant of imm_I)
imm_I_DropsBit20(raw) == AsI32(Sar(BitAnd(raw, W(\hffe0, \h0000)), 20))

\* Instruction::new, the immediate of each format
imm_I(raw) == AsI32(Sar(BitAnd(raw, W(\hfff0, \h0000)), 20))

imm_S(raw) ==
    AsI32(BitOr(Sar(BitAnd(raw, W(\hfe00, \h0000)), 20),
                Sar(BitAnd(raw, W(\h0000, \h0f80)), 7)))

imm_B(raw) ==
    AsI32(BitOr(BitOr(BitOr(Sar(BitAnd(raw, W(\h8000, \h0000)), 19),
                            Sar(BitAnd(raw, W(\h7e00, \h0000)), 20)),
                      Sar(BitAnd(raw, W(\h0000, \h0f00)), 7)),
                Shl(BitAnd(raw, W(\h0000, \h0080)), 4)))

imm_U(raw) == AsI32(BitAnd(raw, W(\hffff, \h0000)))

imm_J(raw) ==
    AsI32(BitOr(BitOr(BitOr(Sar(BitAnd(raw, W(\h7fe0, \h0000)), 20),
                            Sar(BitAnd(raw, W(\h0010, \h0000)), 9)),
                      BitAnd(raw, W(\h000f, \hf000))),
                Sar(BitAnd(raw, W(\h8000, \h0000)), 11)))

\* Instruction::new
Instruction_new(raw) ==
    LET op_code == AsU8(BitAnd(raw, W(\h0000, \h007f)))
        funct3 == AsU8(Shr(BitAnd(raw, W(\h0000, \h7000)), 12))
        option_op == Shr(BitAnd(raw, W(\h4000, \h0000)), 30) /= {}
        instr == InstrType_new(op_code, funct3, option_op)
        rd == IF has_rd(instr)
              THEN Some(AsU8(Shr(BitAnd(raw, W(\h0000, \h0f80)), 7)))
              ELSE None
        rs1 == IF has_rs1(instr)
               THEN Some(AsU8(Shr(BitAnd(raw, W(\h000f, \h8000)), 15)))
               ELSE None
        rs2 == IF has_rs2(instr)
               THEN Some(AsU8(Shr(BitAnd(raw, W(\h01f0, \h0000)), 20)))
               ELSE None
        shamt == IF has_option(instr)
                 THEN Some(AsU8(Shr(BitAnd(raw, W(\h01f0, \h0000)), 20)))
                 ELSE None
        imm == IF shamt = None
               THEN CASE instr.instr_type = "I" -> Some(imm_I(raw))
                      [] instr.instr_type = "S" -> Some(imm_S(raw))
                      [] instr.instr_type = "B" -> Some(imm_B(raw))
                      [] instr.instr_type = "U" -> Some(imm_U(raw))
                      [] instr.instr_type = "J" -> Some(imm_J(raw))
                      [] OTHER -> None
               ELSE None
    IN  [instr |-> instr, rd |-> rd, rs1 |-> rs1, rs2 |-> rs2,
         shamt |-> shamt, imm |-> imm]

\* Instruction::is_valid testing the mnemonic instead of the format (a faulty variant of is_valid)
is_valid_ByMnemonic(i) == i.instr.instr_op /= "Invalid"

\* Instruction::is_valid
is_valid(i) == i.instr.instr_type /= "Invalid"

-----------------------------------------------------------------------------
(* The words the decoder is run on.  A word is assembled from its fields:   *)
(* opcode bits 6:0, rd bits 11:7, funct3 bits 14:12, rs1 bits 19:15, rs2    *)
(* bits 24:20, funct7 bits 31:25 (bit 30 is the alt bit, bit 31 the sign).  *)

Field(v, base) == {i + base : i \in {j \in 0..6 : BitOf(v, j) = 1}}

Word(op_code, rd, funct3, rs1, rs2, funct7) ==
    Field(op_code, 0) \cup Field(rd, 7) \cup Field(funct3, 12)
        \cup Field(rs1, 15) \cup Field(rs2, 20) \cup Field(funct7, 25)

\* every 7-bit opcode and every funct3
OpCodes == 0..127
Funct3s == 0..7
MajorOpCodes ==
    {RV32_OP_CODES_ARITH_IMM, RV32_OP_CODES_ARITH_REG, RV32_OP_CODES_MEM_LD,
     RV32_OP_CODES_MEM_ST, RV32_OP_CODES_BR, RV32_OP_CODES_JALR,
     RV32_OP_CODES_JAL, RV32_OP_CODES_AUIPC, RV32_OP_CODES_LUI}

\* register and funct7 samples: every bit of each field is one in some sample
\* and zero in another
RdSamples == {0, 1, 14, 30}
Rs1Samples == {0, 1, 13, 22}
Rs2Samples == {0, 1, 20, 31}
Funct7Samples == {0, \h20, \h40, \h55, \h7f}

\* words the tests of decoder.rs decode
TestWords ==
    {W(\h00f1, \h8213), W(\hff11, \h8213), W(\h4061, \hd213), W(\hf79f, \hf0ef),
     W(\hdead, \h0737), W(\h7000, \h8117), W(\h0002, \h8067), W(\hfeb5, \h6ce3)}

Words ==
    TestWords
    \cup {Word(op, 0, f3, 0, 0, f7) : op \in OpCodes, f3 \in Funct3s, f7 \in {0, \h20}}
    \cup {Word(op, rd, f3, rs1, rs2, f7) :
            op \in MajorOpCodes, rd \in RdSamples, f3 \in Funct3s,
            rs1 \in Rs1Samples, rs2 \in Rs2Samples, f7 \in Funct7Samples}

\* the fields of a word, read back arithmetically
FieldOf(raw, hi, lo) == SumBits({i - lo : i \in {j \in raw : j >= lo /\ j <= hi}})

NoInstruction ==
    [instr |-> [instr_type |-> "none", instr_op |-> "none"],
     rd |-> None, rs1 |-> None, rs2 |-> None, shamt |-> None, imm |-> None]

\* the decoder before its call, on one of the words above
DecInit == raw_instr \in Words /\ decoded = NoInstruction /\ dec_pc = "fetched"

\* the decoder in the specifications of the other components
DecIdle == raw_instr = {} /\ decoded = NoInstruction /\ dec_pc = "fetched"

\* let decoded = Instruction::new(instruction)
Decode ==
    /\ dec_pc = "fetched"
    /\ decoded' = Instruction_new(raw_instr)
    /\ dec_pc' = "decoded"
    /\ UNCHANGED <<raw_instr, rf_vars, mem_vars, alu_vars, dis_vars, sim_vars>>

-----------------------------------------------------------------------------
(* register_file.rs *)

\* RegisterFile::new: vec![0; 31], indexed 0..30
RegisterFile_new == [i \in 0..30 |-> 0]

\* RegisterFile::write guarding with rsd <= 32 (a faulty variant of write)
write_GuardOffByOne(regs, rsd, data) ==
    IF rsd /= 0 /\ rsd <= 32
    THEN IF (rsd - 1) \in DOMAIN regs
         THEN [registers |-> [regs EXCEPT ![rsd - 1] = data], panicked |-> FALSE]
         ELSE [registers |-> regs, panicked |-> TRUE]
    ELSE [registers |-> regs, panicked |-> FALSE]

\* RegisterFile::write storing at registers[rsd] (a faulty variant of write)
write_NoIndexShift(regs, rsd, data) ==
    IF rsd /= 0 /\ rsd < 32
    THEN IF rsd \in DOMAIN regs
         THEN [registers |-> [regs EXCEPT ![rsd] = data], panicked |-> FALSE]
         ELSE [registers |-> regs, panicked |-> TRUE]
    ELSE [registers |-> regs, panicked |-> FALSE]

\* RegisterFile::write; indexing the Vec out of its bounds panics
write(regs, rsd, data) ==
    IF rsd /= 0 /\ rsd < 32
    THEN IF (rsd - 1) \in DOMAIN regs
         THEN [registers |-> [regs EXCEPT ![rsd - 1] = data], panicked |-> FALSE]
         ELSE [registers |-> regs, panicked |-> TRUE]
    ELSE [registers |-> regs, panicked |-> FALSE]

\* RegisterFile::read, one port
read_port(regs, rs) ==
    IF rs = 0 \/ rs >= 32
    THEN [val |-> 0, panicked |-> FALSE]
    ELSE IF (rs - 1) \in DOMAIN regs
         THEN [val |-> regs[rs - 1], panicked |-> FALSE]
         ELSE [val |-> 0, panicked |-> TRUE]

\* RegisterFile::read
read(regs, rs1, rs2) ==
    LET rs1_read == read_port(regs, rs1)
        rs2_read == read_port(regs, rs2)
    IN  [val |-> <<rs1_read.val, rs2_read.val>>,
         panicked |-> rs1_read.panicked \/ rs2_read.panicked]

\* the u8 register ids and the i32 data the register file is driven with
MaxWrites == 2
RegIds == {0, 1, 16, 31, 32, 255}
RegData == {54, -74}

RfInit ==
    /\ registers = RegisterFile_new
    /\ rf_call = [fn |-> "new", a |-> 0, b |-> 0]
    /\ rf_ret = <<0, 0>>
    /\ rf_panicked = FALSE
    /\ rf_shadow = [i \in RegIds |-> None]
    /\ rf_writes = 0

\* reg_file.write(rsd, data)
RfWrite ==
    /\ ~rf_panicked
    /\ rf_writes < MaxWrites
    /\ \E rsd \in RegIds, data \in RegData :
         LET r == write(registers, rsd, data)
         IN  /\ registers' = r.registers
             /\ rf_panicked' = r.panicked
             /\ rf_call' = [fn |-> "write", a |-> rsd, b |-> data]
             /\ rf_shadow' = [rf_shadow EXCEPT ![rsd] = Some(data)]
    /\ rf_writes' = rf_writes + 1
    /\ UNCHANGED <<rf_ret, dec_vars, mem_vars, alu_vars, dis_vars, sim_vars>>

\* reg_file.read(rs1, rs2)
RfRead ==
    /\ ~rf_panicked
    /\ \E rs1 \in RegIds, rs2 \in RegIds :
         LET r == read(registers, rs1, rs2)
         IN  /\ rf_ret' = r.val
             /\ rf_panicked' = r.panicked
             /\ rf_call' = [fn |-> "read", a |-> rs1, b |-> rs2]
    /\ UNCHANGED <<registers, rf_shadow, rf_writes, dec_vars, mem_vars, alu_vars, dis_vars, sim_vars>>

-----------------------------------------------------------------------------
(* mem.rs *)

\* Memory::MEMORY_ADDR_SIZE
MEMORY_ADDR_SIZE == 21

\* the u32 whose value is the natural number n < 2^31
NatWord(n) == {i \in 0..30 : BitOf(n, i) = 1}

\* Memory::mask_addr keeping MEMORY_ADDR_SIZE bits only (a faulty variant of mask_addr)
mask_addr_OneBitLess(addr) ==
    AsNat(BitAnd(addr, NatWord((2 ^ MEMORY_ADDR_SIZE) - 1)))

\* Memory::mask_addr
mask_addr(addr) ==
    AsNat(BitAnd(addr, NatWord((2 ^ MEMORY_ADDR_SIZE) + (2 ^ MEMORY_ADDR_SIZE) - 1)))

\* the u32 addresses the memory is called with: two word-aligned bases, 0
\* and one with bits 21..31 set, each with the four byte offsets
AddrBases == {W(\h0000, \h0000), W(\hffe0, \h0000)}
Addrs == {BitOr(base, NatWord(k)) : base \in AddrBases, k \in 0..3}

\* the addresses the memory is probed at: those above and the ones that
\* differ from them in bit 21 only or in bits 22..31 only
ProbeBases == AddrBases \cup {W(\h0020, \h0000), W(\hffc0, \h0000)}
ProbeAddrs == {BitOr(base, NatWord(k)) : base \in ProbeBases, k \in 0..3}

\* The banks are Vecs of 1 << MEMORY_ADDR_SIZE bytes; an index is
\* mask_addr(addr) >> 2 < 2^20, always within the Vec.  The model keeps the
\* slots the addresses above select.
MemIdx == {mask_addr(a) \div 4 : a \in ProbeAddrs}

\* Memory::new
Memory_new == [i \in MemIdx |-> 0]

\* the four banks of the current state
Banks == <<bank_0, bank_1, bank_2, bank_3>>

\* Memory::read_pc
read_pc(m, pc) ==
    LET masked_pc == mask_addr(pc) \div 4
    IN  BitOr(BitOr(BitOr(Shl(FromU8(m[4][masked_pc]), 24),
                          Shl(FromU8(m[3][masked_pc]), 16)),
                    Shl(FromU8(m[2][masked_pc]), 8)),
              FromU8(m[1][masked_pc]))

\* Memory::get_data selecting bank select_bank mod 4 (a faulty variant of get_data)
get_data_BankWraps(m, addr, select_bank) ==
    [val |-> m[(select_bank % 4) + 1][addr], panicked |-> FALSE]

\* Memory::get_data
get_data(m, addr, select_bank) ==
    CASE select_bank = 0 -> [val |-> m[1][addr], panicked |-> FALSE]
      [] select_bank = 1 -> [val |-> m[2][addr], panicked |-> FALSE]
      [] select_bank = 2 -> [val |-> m[3][addr], panicked |-> FALSE]
      [] select_bank = 3 -> [val |-> m[4][addr], panicked |-> FALSE]
      [] OTHER -> [val |-> 0, panicked |-> TRUE]

\* Memory::put_data with banks 2 and 3 exchanged (a faulty variant of put_data)
put_data_BanksSwapped(m, addr, select_bank, data) ==
    CASE select_bank = 0 ->
            [banks |-> [m EXCEPT ![1][addr] = data], panicked |-> FALSE]
      [] select_bank = 1 ->
            [banks |-> [m EXCEPT ![2][addr] = data], panicked |-> FALSE]
      [] select_bank = 2 ->
            [banks |-> [m EXCEPT ![4][addr] = data], panicked |-> FALSE]
      [] select_bank = 3 ->
            [banks |-> [m EXCEPT ![3][addr] = data], panicked |-> FALSE]
      [] OTHER -> [banks |-> m, panicked |-> TRUE]

\* Memory::put_data selecting bank select_bank mod 4 (a faulty variant of put_data)
put_data_BankWraps(m, addr, select_bank, data) ==
    [banks |-> [m EXCEPT ![(select_bank % 4) + 1][addr] = data],
     panicked |-> FALSE]

\* Memory::put_data
put_data(m, addr, select_bank, data) ==
    CASE select_bank = 0 ->
            [banks |-> [m EXCEPT ![1][addr] = data], panicked |-> FALSE]
      [] select_bank = 1 ->
            [banks |-> [m EXCEPT ![2][addr] = data], panicked |-> FALSE]
      [] select_bank = 2 ->
            [banks |-> [m EXCEPT ![3][addr] = data], panicked |-> FALSE]
      [] select_bank = 3 ->
            [banks |-> [m EXCEPT ![4][addr] = data], panicked |-> FALSE]
      [] OTHER -> [banks |-> m, panicked |-> TRUE]

\* a call after earlier ones: it is not reached once one of them panicked
ThenPut(r, addr, select_bank, data) ==
    IF r.panicked THEN r ELSE put_data(r.banks, addr, select_bank, data)

\* the value a load returns, or the panic that ends it
Loaded(word, gets) ==
    IF \E g \in gets : g.panicked
    THEN [val |-> 0, panicked |-> TRUE]
    ELSE [val |-> AsI32(word), panicked |-> FALSE]

\* Memory::load_data taking the sign of a byte from bit 6 (a faulty variant of load_data)
load_data_SignFromBit6(m, op, addr) ==
    LET masked_addr == mask_addr(addr) \div 4
        addr_lsbs == AsU8(BitAnd(addr, W(\h0000, \h0003)))
    IN  CASE op = "LoadByte" ->
                LET data == get_data(m, masked_addr, addr_lsbs)
                    sign_extend == IF (data.val \div 64) % 2 = 1
                                   THEN W(\hffff, \hff00) ELSE W(\h0000, \h0000)
                IN  Loaded(BitOr(sign_extend, FromU8(data.val)), {data})
          [] op = "LoadHalf" ->
                LET data_0 == get_data(m, masked_addr, addr_lsbs)
                    data_1 == get_data(m, masked_addr, addr_lsbs + 1)
                    sign_extend == IF (data_1.val \div 128) % 2 = 1
                                   THEN W(\hffff, \h0000) ELSE W(\h0000, \h0000)
                IN  Loaded(BitOr(BitOr(sign_extend, Shl(FromU8(data_1.val), 8)),
                                 FromU8(data_0.val)),
                           {data_0, data_1})
          [] op = "LoadWord" ->
                LET data_0 == get_data(m, masked_addr, addr_lsbs)
                    data_1 == get_data(m, masked_addr, addr_lsbs + 1)
                    data_2 == get_data(m, masked_addr, addr_lsbs + 2)
                    data_3 == get_data(m, masked_addr, addr_lsbs + 3)
                IN  Loaded(BitOr(BitOr(BitOr(Shl(FromU8(data_3.val), 24),
                                             Shl(FromU8(data_2.val), 16)),
                                       Shl(FromU8(data_1.val), 8)),
                                 FromU8(data_0.val)),
                           {data_0, data_1, data_2, data_3})
          [] op = "LoadByteUnsigned" ->
                LET data == get_data(m, masked_addr, addr_lsbs)
                IN  Loaded(FromU8(data.val), {data})
          [] op = "LoadHalfUnsigned" ->
                LET data_0 == get_data(m, masked_addr, addr_lsbs)
                    data_1 == get_data(m, masked_addr, addr_lsbs + 1)
                IN  Loaded(BitOr(Shl(FromU8(data_1.val), 8), FromU8(data_0.val)),
                           {data_0, data_1})
          [] OTHER -> [val |-> 0, panicked |-> TRUE]

\* Memory::load_data
load_data(m, op, addr) ==
    LET masked_addr == mask_addr(addr) \div 4
        addr_lsbs == AsU8(BitAnd(addr, W(\h0000, \h0003)))
    IN  CASE op = "LoadByte" ->
                LET data == get_data(m, masked_addr, addr_lsbs)
                    sign_extend == IF (data.val \div 128) % 2 = 1
                                   THEN W(\hffff, \hff00) ELSE W(\h0000, \h0000)
                IN  Loaded(BitOr(sign_extend, FromU8(data.val)), {data})
          [] op = "LoadHalf" ->
                LET data_0 == get_data(m, masked_addr, addr_lsbs)
                    data_1 == get_data(m, masked_addr, addr_lsbs + 1)
                    sign_extend == IF (data_1.val \div 128) % 2 = 1
                                   THEN W(\hffff, \h0000) ELSE W(\h0000, \h0000)
                IN  Loaded(BitOr(BitOr(sign_extend, Shl(FromU8(data_1.val), 8)),
                                 FromU8(data_0.val)),
                           {data_0, data_1})
          [] op = "LoadWord" ->
                LET data_0 == get_data(m, masked_addr, addr_lsbs)
                    data_1 == get_data(m, masked_addr, addr_lsbs + 1)
                    data_2 == get_data(m, masked_addr, addr_lsbs + 2)
                    data_3 == get_data(m, masked_addr, addr_lsbs + 3)
                IN  Loaded(BitOr(BitOr(BitOr(Shl(FromU8(data_3.val), 24),
                                             Shl(FromU8(data_2.val), 16)),
                                       Shl(FromU8(data_1.val), 8)),
                                 FromU8(data_0.val)),
                           {data_0, data_1, data_2, data_3})
          [] op = "LoadByteUnsigned" ->
                LET data == get_data(m, masked_addr, addr_lsbs)
                IN  Loaded(FromU8(data.val), {data})
          [] op = "LoadHalfUnsigned" ->
                LET data_0 == get_data(m, masked_addr, addr_lsbs)
                    data_1 == get_data(m, masked_addr, addr_lsbs + 1)
                IN  Loaded(BitOr(Shl(FromU8(data_1.val), 8), FromU8(data_0.val)),
                           {data_0, data_1})
          [] OTHER -> [val |-> 0, panicked |-> TRUE]

\* Memory::write_data storing the second byte first (a faulty variant of write_data)
write_data_BigEndian(m, op, addr, data) ==
    LET masked_addr == mask_addr(addr) \div 4
        addr_lsbs == AsU8(BitAnd(addr, W(\h0000, \h0003)))
        r0 == [banks |-> m, panicked |-> FALSE]
    IN  CASE op = "StoreByte" ->
                put_data(m, masked_addr, addr_lsbs,
                         AsU8(Shr(BitAnd(data, W(\h0000, \hff00)), 8)))
          [] op = "StoreHalf" ->
                ThenPut(ThenPut(r0, masked_addr, addr_lsbs,
                                AsU8(Shr(BitAnd(data, W(\h0000, \hff00)), 8))),
                        masked_addr, addr_lsbs + 1,
                        AsU8(BitAnd(data, W(\h0000, \h00ff))))
          [] op = "StoreWord" ->
                ThenPut(ThenPut(ThenPut(ThenPut(r0,
                    masked_addr, addr_lsbs,
                    AsU8(Shr(BitAnd(data, W(\hff00, \h0000)), 24))),
                    masked_addr, addr_lsbs + 1,
                    AsU8(Shr(BitAnd(data, W(\h00ff, \h0000)), 16))),
                    masked_addr, addr_lsbs + 2,
                    AsU8(Shr(BitAnd(data, W(\h0000, \hff00)), 8))),
                    masked_addr, addr_lsbs + 3,
                    AsU8(BitAnd(data, W(\h0000, \h00ff))))
          [] OTHER -> [banks |-> m, panicked |-> TRUE]

\* Memory::write_data with StoreByte writing the next byte as well (a faulty
\* variant of write_data)
write_data_ByteWritesHalf(m, op, addr, data) ==
    LET split_data == <<BitAnd(data, W(\h0000, \h00ff)),
                        Shr(BitAnd(data, W(\h0000, \hff00)), 8),
                        Shr(BitAnd(data, W(\h00ff, \h0000)), 16),
                        Shr(BitAnd(data, W(\hff00, \h0000)), 24)>>
        masked_addr == mask_addr(addr) \div 4
        addr_lsbs == AsU8(BitAnd(addr, W(\h0000, \h0003)))
        r0 == [banks |-> m, panicked |-> FALSE]
    IN  CASE op = "StoreByte" ->
                ThenPut(ThenPut(r0, masked_addr, addr_lsbs, AsU8(split_data[1])),
                        masked_addr, addr_lsbs + 1, AsU8(split_data[2]))
          [] op = "StoreHalf" ->
                ThenPut(ThenPut(r0, masked_addr, addr_lsbs, AsU8(split_data[1])),
                        masked_addr, addr_lsbs + 1, AsU8(split_data[2]))
          [] op = "StoreWord" ->
                ThenPut(ThenPut(ThenPut(ThenPut(r0,
                    masked_addr, addr_lsbs, AsU8(split_data[1])),
                    masked_addr, addr_lsbs + 1, AsU8(split_data[2])),
                    masked_addr, addr_lsbs + 2, AsU8(split_data[3])),
                    masked_addr, addr_lsbs + 3, AsU8(split_data[4]))
          [] OTHER -> [banks |-> m, panicked |-> TRUE]

\* Memory::write_data
write_data(m, op, addr, data) ==
    LET split_data == <<BitAnd(data, W(\h0000, \h00ff)),
                        Shr(BitAnd(data, W(\h0000, \hff00)), 8),
                        Shr(BitAnd(data, W(\h00ff, \h0000)), 16),
                        Shr(BitAnd(data, W(\hff00, \h0000)), 24)>>
        masked_addr == mask_addr(addr) \div 4
        addr_lsbs == AsU8(BitAnd(addr, W(\h0000, \h0003)))
        r0 == [banks |-> m, panicked |-> FALSE]
    IN  CASE op = "StoreByte" ->
                put_data(m, masked_addr, addr_lsbs, AsU8(split_data[1]))
          [] op = "StoreHalf" ->
                ThenPut(ThenPut(r0, masked_addr, addr_lsbs, AsU8(split_data[1])),
                        masked_addr, addr_lsbs + 1, AsU8(split_data[2]))
          [] op = "StoreWord" ->
                ThenPut(ThenPut(ThenPut(ThenPut(r0,
                    masked_addr, addr_lsbs, AsU8(split_data[1])),
                    masked_addr, addr_lsbs + 1, AsU8(split_data[2])),
                    masked_addr, addr_lsbs + 2, AsU8(split_data[3])),
                    masked_addr, addr_lsbs + 3, AsU8(split_data[4]))
          [] OTHER -> [banks |-> m, panicked |-> TRUE]

\* enum MemLoadOp, enum MemStoreOp
MemLoadOp ==
    {"LoadByte", "LoadHalf", "LoadWord", "LoadByteUnsigned", "LoadHalfUnsigned",
     "InvalidLoad"}
MemStoreOp == {"StoreByte", "StoreHalf", "StoreWord", "InvalidStore"}

\* enum RV32I
RV32I ==
    {"ADDI", "SLTI", "SLTIU", "XORI", "ORI", "ANDI", "SLLI", "SRLI", "SRAI",
     "ADD", "SUB", "SLL", "SLT", "SLTU", "XOR", "SRL", "SRA", "OR", "AND",
     "LB", "LH", "LW", "LBU", "LHU", "SB", "SH", "SW",
     "JAL", "JALR", "BEQ", "BNE", "BLT", "BGE", "BLTU", "BGEU",
     "LUI", "AUIPC", "Invalid"}

\* MemLoadOp::from
MemLoadOp_from(instr) ==
    CASE instr = "LB" -> "LoadByte"
      [] instr = "LH" -> "LoadHalf"
      [] instr = "LW" -> "LoadWord"
      [] instr = "LBU" -> "LoadByteUnsigned"
      [] instr = "LHU" -> "LoadHalfUnsigned"
      [] OTHER -> "InvalidLoad"

\* MemStoreOp::from with every other mnemonic stored as a byte (a faulty
\* variant of MemStoreOp_from)
MemStoreOp_from_ByteByDefault(instr) ==
    CASE instr = "SB" -> "StoreByte"
      [] instr = "SH" -> "StoreHalf"
      [] instr = "SW" -> "StoreWord"
      [] OTHER -> "StoreByte"

\* MemStoreOp::from
MemStoreOp_from(instr) ==
    CASE instr = "SB" -> "StoreByte"
      [] instr = "SH" -> "StoreHalf"
      [] instr = "SW" -> "StoreWord"
      [] OTHER -> "InvalidStore"

\* the u32 data the stores are called with, and the number of calls
StoreData == {W(\haabb, \hccdd), W(\h0000, \h0080)}
MaxMemOps == 2

MemInit ==
    /\ bank_0 = Memory_new /\ bank_1 = Memory_new
    /\ bank_2 = Memory_new /\ bank_3 = Memory_new
    /\ mem_call = [fn |-> "new", op |-> "", addr |-> {}, data |-> {}]
    /\ mem_ret = 0
    /\ mem_panicked = FALSE
    /\ mem_ops = 0

\* my_mem.write_data(&MemStoreOp::from(instr), addr, data)
MemWrite ==
    /\ ~mem_panicked
    /\ mem_ops < MaxMemOps
    /\ \E op \in {MemStoreOp_from(instr) : instr \in RV32I},
          addr \in Addrs, data \in StoreData :
         LET r == write_data(Banks, op, addr, data)
         IN  /\ bank_0' = r.banks[1] /\ bank_1' = r.banks[2]
             /\ bank_2' = r.banks[3] /\ bank_3' = r.banks[4]
             /\ mem_panicked' = r.panicked
             /\ mem_call' = [fn |-> "write_data", op |-> op, addr |-> addr,
                             data |-> data]
    /\ mem_ops' = mem_ops + 1
    /\ UNCHANGED <<mem_ret, dec_vars, rf_vars, alu_vars, dis_vars, sim_vars>>

\* my_mem.load_data(&MemLoadOp::from(instr), addr)
MemLoad ==
    /\ ~mem_panicked
    /\ mem_ops < MaxMemOps
    /\ \E op \in {MemLoadOp_from(instr) : instr \in RV32I}, addr \in Addrs :
         LET r == load_data(Banks, op, addr)
         IN  /\ mem_ret' = r.val
             /\ mem_panicked' = r.panicked
             /\ mem_call' = [fn |-> "load_data", op |-> op, addr |-> addr,
                             data |-> {}]
    /\ mem_ops' = mem_ops + 1
    /\ UNCHANGED <<bank_0, bank_1, bank_2, bank_3, dec_vars, rf_vars, alu_vars, dis_vars, sim_vars>>

\* my_mem.read_pc(pc)
MemFetch ==
    /\ ~mem_panicked
    /\ mem_ops < MaxMemOps
    /\ \E pc \in Addrs :
         /\ mem_ret' = AsI32(read_pc(Banks, pc))
         /\ mem_call' = [fn |-> "read_pc", op |-> "", addr |-> pc, data |-> {}]
    /\ mem_ops' = mem_ops + 1
    /\ UNCHANGED <<bank_0, bank_1, bank_2, bank_3, mem_panicked, dec_vars, rf_vars, alu_vars, dis_vars, sim_vars>>

-----------------------------------------------------------------------------
(* alu.rs *)

\* impl From<RV32I> for AluOpList with BGEU compared as signed (a faulty
\* variant of AluOpList_from)
AluOpList_from_BgeuSigned(instr) ==
    CASE instr \in {"ADDI", "ADD"} -> "Add"
      [] instr \in {"SLTI", "SLT", "BLT", "BGE", "BGEU"} -> "Slt"
      [] instr \in {"SLTIU", "SLTU", "BLTU"} -> "Sltu"
      [] instr \in {"XORI", "XOR"} -> "Xor"
      [] instr \in {"ORI", "OR"} -> "Or"
      [] instr \in {"ANDI", "AND"} -> "And"
      [] instr \in {"SLLI", "SLL"} -> "Sll"
      [] instr \in {"SRLI", "SRL"} -> "Srl"
      [] instr \in {"SRAI", "SRA"} -> "Sra"
      [] instr \in {"SUB", "BEQ", "BNE"} -> "Sub"
      [] OTHER -> "Invalid"

\* impl From<RV32I> for AluOpList
AluOpList_from(instr) ==
    CASE instr \in {"ADDI", "ADD"} -> "Add"
      [] instr \in {"SLTI", "SLT", "BLT", "BGE"} -> "Slt"
      [] instr \in {"SLTIU", "SLTU", "BLTU", "BGEU"} -> "Sltu"
      [] instr \in {"XORI", "XOR"} -> "Xor"
      [] instr \in {"ORI", "OR"} -> "Or"
      [] instr \in {"ANDI", "AND"} -> "And"
      [] instr \in {"SLLI", "SLL"} -> "Sll"
      [] instr \in {"SRLI", "SRL"} -> "Srl"
      [] instr \in {"SRAI", "SRA"} -> "Sra"
      [] instr \in {"SUB", "BEQ", "BNE"} -> "Sub"
      [] OTHER -> "Invalid"

\* impl From<RV32I> for AluOp leaving SRAI on op_b (a faulty variant of
\* AluOp_from)
AluOp_from_SraiOnOpB(instr) ==
    [op |-> AluOpList_from(instr),
     switch_2_imm |-> instr \in {"ADDI", "SLTI", "SLTIU", "XORI", "ORI", "ANDI",
                                 "SLLI", "SRLI"}]

\* impl From<RV32I> for AluOp
AluOp_from(instr) ==
    [op |-> AluOpList_from(instr),
     switch_2_imm |-> instr \in {"ADDI", "SLTI", "SLTIU", "XORI", "ORI", "ANDI",
                                 "SLLI", "SRLI", "SRAI"}]

\* the 32-bit sum a + b and difference a - b (a + !b + 1), carried through
\* their 16-bit halves
Add32(a, b) ==
    LET lo == FieldOf(a, 15, 0) + FieldOf(b, 15, 0)
        hi == FieldOf(a, 31, 16) + FieldOf(b, 31, 16) + (lo \div 65536)
    IN  W(hi % 65536, lo % 65536)
Sub32(a, b) ==
    LET lo == FieldOf(a, 15, 0) + (65535 - FieldOf(b, 15, 0)) + 1
        hi == FieldOf(a, 31, 16) + (65535 - FieldOf(b, 31, 16)) + (lo \div 65536)
    IN  W(hi % 65536, lo % 65536)

\* does the i32 operation op_a + b, op_a - b leave the range of i32
AddOverflows(a, b) ==
    ((31 \in a) <=> (31 \in b)) /\ ~((31 \in Add32(a, b)) <=> (31 \in a))
SubOverflows(a, b) ==
    ~((31 \in a) <=> (31 \in b)) /\ ~((31 \in Sub32(a, b)) <=> (31 \in a))

\* i32 `+` and `-`: where the result leaves the range of i32 a build with
\* overflow checks panics ("attempt to add with overflow") and a build
\* without them wraps
CheckedArith(word, overflows) ==
    IF overflows /\ overflow_checks
    THEN [val |-> 0, panicked |-> TRUE]
    ELSE [val |-> AsI32(word), panicked |-> FALSE]

\* (op_a as u32) < (operand_b as u32)
LessU32(a, b) ==
    \/ (31 \notin a) /\ (31 \in b)
    \/ ((31 \in a) <=> (31 \in b)) /\ SumBits(a \ {31}) < SumBits(b \ {31})

\* a value the ALU returns
Returned(v) == [val |-> v, panicked |-> FALSE]

\* alu with Sra shifting as Srl does (a faulty variant of alu)
alu_SraLogical(op_a, op_b, imm, op) ==
    LET operand_b == IF op.switch_2_imm THEN imm ELSE op_b
        shamt == AsNat(BitAnd(operand_b, W(\h0000, \h001f)))
    IN  CASE op.op = "Add" ->
                CheckedArith(Add32(op_a, operand_b), AddOverflows(op_a, operand_b))
          [] op.op = "Sub" ->
                CheckedArith(Sub32(op_a, operand_b), SubOverflows(op_a, operand_b))
          [] op.op = "Sll" -> Returned(AsI32(Shl(op_a, shamt)))
          [] op.op = "Slt" ->
                Returned(IF AsI32(op_a) < AsI32(operand_b) THEN 1 ELSE 0)
          [] op.op = "Sltu" ->
                Returned(IF LessU32(op_a, operand_b) THEN 1 ELSE 0)
          [] op.op = "Xor" ->
                Returned(AsI32((op_a \ operand_b) \cup (operand_b \ op_a)))
          [] op.op = "Srl" -> Returned(AsI32(Shr(op_a, shamt)))
          [] op.op = "Sra" -> Returned(AsI32(Shr(op_a, shamt)))
          [] op.op = "Or" -> Returned(AsI32(BitOr(op_a, operand_b)))
          [] op.op = "And" -> Returned(AsI32(BitAnd(op_a, operand_b)))
          [] OTHER -> Returned(-1)

\* alu
alu(op_a, op_b, imm, op) ==
    LET operand_b == IF op.switch_2_imm THEN imm ELSE op_b
        shamt == AsNat(BitAnd(operand_b, W(\h0000, \h001f)))
    IN  CASE op.op = "Add" ->
                CheckedArith(Add32(op_a, operand_b), AddOverflows(op_a, operand_b))
          [] op.op = "Sub" ->
                CheckedArith(Sub32(op_a, operand_b), SubOverflows(op_a, operand_b))
          [] op.op = "Sll" -> Returned(AsI32(Shl(op_a, shamt)))
          [] op.op = "Slt" ->
                Returned(IF AsI32(op_a) < AsI32(operand_b) THEN 1 ELSE 0)
          [] op.op = "Sltu" ->
                Returned(IF LessU32(op_a, operand_b) THEN 1 ELSE 0)
          [] op.op = "Xor" ->
                Returned(AsI32((op_a \ operand_b) \cup (operand_b \ op_a)))
          [] op.op = "Srl" -> Returned(AsI32(Shr(op_a, shamt)))
          [] op.op = "Sra" -> Returned(AsI32(Sar(op_a, shamt)))
          [] op.op = "Or" -> Returned(AsI32(BitOr(op_a, operand_b)))
          [] op.op = "And" -> Returned(AsI32(BitAnd(op_a, operand_b)))
          [] OTHER -> Returned(-1)

\* the i32 operands the ALU is called with: 0, 1, -1, i32::MAX, i32::MIN,
\* 35 and -12
AluOperands ==
    {W(\h0000, \h0000), W(\h0000, \h0001), W(\hffff, \hffff), W(\h7fff, \hffff),
     W(\h8000, \h0000), W(\h0000, \h0023), W(\hffff, \hfff4)}

\* the ALU before alu(op_a, op_b, imm, &AluOp::from(instr)), in a build with
\* or without overflow checks
AluInit ==
    /\ overflow_checks \in BOOLEAN
    /\ alu_in \in [instr : RV32I, op_a : AluOperands, op_b : AluOperands,
                   imm : AluOperands]
    /\ alu_ret = 0
    /\ alu_panicked = FALSE
    /\ alu_pc = "ready"

\* the ALU in the specifications of the other components
AluIdle ==
    /\ overflow_checks = FALSE
    /\ alu_in = [instr |-> "Invalid", op_a |-> {}, op_b |-> {}, imm |-> {}]
    /\ alu_ret = 0
    /\ alu_panicked = FALSE
    /\ alu_pc = "ready"

\* let result = alu(op_a, op_b, imm, &AluOp::from(instr))
AluCall ==
    /\ alu_pc = "ready"
    /\ LET r == alu(alu_in.op_a, alu_in.op_b, alu_in.imm, AluOp_from(alu_in.instr))
       IN  alu_ret' = r.val /\ alu_panicked' = r.panicked
    /\ alu_pc' = "done"
    /\ UNCHANGED <<overflow_checks, alu_in, dec_vars, rf_vars, mem_vars, dis_vars, sim_vars>>

-----------------------------------------------------------------------------
(* riscv/decoder.rs: impl PartialEq for Instruction *)

\* Instruction::eq comparing the mnemonics of two Invalid instructions
\* instead of their formats (a faulty variant of Instruction_eq)
Instruction_eq_ByMnemonic(self, other) ==
    IF self.instr.instr_op = "Invalid" /\ other.instr.instr_op = "Invalid"
    THEN TRUE
    ELSE IF self.instr = other.instr
    THEN IF self.rd # other.rd THEN FALSE
         ELSE IF self.rs1 # other.rs1 THEN FALSE
         ELSE IF self.rs2 # other.rs2 THEN FALSE
         ELSE IF self.imm # other.imm THEN FALSE
         ELSE IF self.shamt # other.shamt THEN FALSE
         ELSE TRUE
    ELSE FALSE

\* Instruction::eq
Instruction_eq(self, other) ==
    IF self.instr.instr_type = "Invalid" /\ other.instr.instr_type = "Invalid"
    THEN TRUE
    ELSE IF self.instr = other.instr
    THEN IF self.rd # other.rd THEN FALSE
         ELSE IF self.rs1 # other.rs1 THEN FALSE
         ELSE IF self.rs2 # other.rs2 THEN FALSE
         ELSE IF self.imm # other.imm THEN FALSE
         ELSE IF self.shamt # other.shamt THEN FALSE
         ELSE TRUE
    ELSE FALSE

-----------------------------------------------------------------------------
(* riscv/decoder.rs: PseudoInstrWith1Instr *)

\* macro specs_init!
specs_init(instr, is_pseudo, code, rd, rs, rt, offset) ==
    [instr |-> instr, is_pseudo |-> is_pseudo, code |-> code,
     rd |-> rd, rs |-> rs, rt |-> rt, offset |-> offset]

\* opt.is_some() && opt.unwrap() == v
IsSomeOf(opt, v) == opt # None /\ opt[1] = v

\* PseudoInstrWith1Instr::new: each block returns Some(result), or None
\* where control falls through to the next block
PseudoInstrWith1Instr_new(instr_in) ==
    LET rd_in == instr_in.rd
        rs1_in == instr_in.rs1
        rs2_in == instr_in.rs2
        offset_in == instr_in.imm
        instr_op == instr_in.instr.instr_op
        rd_is_x0 ==
            IF IsSomeOf(rd_in, 0)
            THEN CASE instr_op = "JAL" ->
                        Some(specs_init(instr_in, TRUE, "j", None, None, None, offset_in))
                   [] instr_op = "JALR" ->
                        IF IsSomeOf(rs1_in, 1)
                        THEN Some(specs_init(instr_in, TRUE, "ret", None, None, None, None))
                        ELSE Some(specs_init(instr_in, TRUE, "jr", None, rs1_in, None, None))
                   [] instr_op = "ADDI" ->
                        IF IsSomeOf(rs1_in, 0) /\ IsSomeOf(offset_in, 0)
                        THEN Some(specs_init(instr_in, TRUE, "nop", None, None, None, None))
                        ELSE None
                   [] OTHER -> None
            ELSE None
        rd_is_x1 ==
            IF IsSomeOf(rd_in, 1)
            THEN CASE instr_op = "JAL" ->
                        Some(specs_init(instr_in, TRUE, "jal", None, None, None, offset_in))
                   [] instr_op = "JALR" ->
                        Some(specs_init(instr_in, TRUE, "jalr", None, rs1_in, None, None))
                   [] OTHER -> None
            ELSE None
        rs2_is_x0 ==
            IF IsSomeOf(rs2_in, 0)
            THEN CASE instr_op = "SUB" ->
                        Some(specs_init(instr_in, TRUE, "neg", rd_in, rs1_in, None, None))
                   [] instr_op = "SLTU" ->
                        Some(specs_init(instr_in, TRUE, "snez", rd_in, rs1_in, None, None))
                   [] instr_op = "SLT" ->
                        Some(specs_init(instr_in, TRUE, "sgtz", rd_in, rs1_in, None, None))
                   [] instr_op = "BGE" ->
                        Some(specs_init(instr_in, TRUE, "blez", None, rs1_in, None, offset_in))
                   [] instr_op = "BLT" ->
                        Some(specs_init(instr_in, TRUE, "bgtz", None, rs1_in, None, offset_in))
                   [] OTHER -> None
            ELSE None
        rs1_is_x0 ==
            IF IsSomeOf(rs1_in, 0)
            THEN CASE instr_op = "SLT" ->
                        Some(specs_init(instr_in, TRUE, "sltz", rd_in, rs2_in, None, None))
                   [] instr_op = "BEQ" ->
                        Some(specs_init(instr_in, TRUE, "beqz", None, rs2_in, None, offset_in))
                   [] instr_op = "BNE" ->
                        Some(specs_init(instr_in, TRUE, "bnez", None, rs2_in, None, offset_in))
                   [] instr_op = "BGE" ->
                        Some(specs_init(instr_in, TRUE, "bgez", None, rs2_in, None, offset_in))
                   [] instr_op = "BLT" ->
                        Some(specs_init(instr_in, TRUE, "bgez", None, rs2_in, None, offset_in))
                   [] OTHER -> None
            ELSE None
        by_offset ==
            IF IsSomeOf(offset_in, 0) /\ instr_op = "ADDI"
            THEN Some(specs_init(instr_in, TRUE, "mv", rd_in, rs1_in, None, None))
            ELSE IF IsSomeOf(offset_in, -1) /\ instr_op = "XORI"
            THEN Some(specs_init(instr_in, TRUE, "not", rd_in, rs1_in, None, None))
            ELSE IF IsSomeOf(offset_in, 1) /\ instr_op = "SLTIU"
            THEN Some(specs_init(instr_in, TRUE, "seqz", rd_in, rs1_in, None, None))
            ELSE None
        last ==
            CASE instr_op = "BLT" ->
                    specs_init(instr_in, TRUE, "bgt", None, rs1_in, rs2_in, offset_in)
              [] instr_op = "BGE" ->
                    specs_init(instr_in, TRUE, "ble", None, rs1_in, rs2_in, offset_in)
              [] instr_op = "BLTU" ->
                    specs_init(instr_in, TRUE, "bgtu", None, rs1_in, rs2_in, offset_in)
              [] instr_op = "BGEU" ->
                    specs_init(instr_in, TRUE, "bleu", None, rs1_in, rs2_in, offset_in)
              [] OTHER -> specs_init(instr_in, FALSE, "", None, None, None, None)
    IN  IF rd_is_x0 # None THEN rd_is_x0[1]
        ELSE IF rd_is_x1 # None THEN rd_is_x1[1]
        ELSE IF rs2_is_x0 # None THEN rs2_is_x0[1]
        ELSE IF rs1_is_x0 # None THEN rs1_is_x0[1]
        ELSE IF by_offset # None THEN by_offset[1]
        ELSE last

\* the disassembler before its calls
DisInit ==
    /\ pseudo = None /\ dis_pc = "start" /\ rendered = <<>>
    /\ eq_in = <<{}, {}>> /\ eq_ret = FALSE /\ eq_pc = "ready"

\* PseudoInstrWith1Instr::new(decoded)
Collapse ==
    /\ dec_pc = "decoded"
    /\ dis_pc = "start"
    /\ pseudo' = Some(PseudoInstrWith1Instr_new(decoded))
    /\ dis_pc' = "collapsed"
    /\ UNCHANGED <<rendered, eq_in, eq_ret, eq_pc, dec_vars, rf_vars, mem_vars,
                   alu_vars, sim_vars>>

\* riscv/labels.rs: get_register_label, by register number + 1
RegisterLabels ==
    <<"zero", "ra", "sp", "gp", "tp", "t0", "t1", "t2", "s0/fp", "s1",
      "a0", "a1", "a2", "a3", "a4", "a5", "a6", "a7",
      "s2", "s3", "s4", "s5", "s6", "s7", "s8", "s9", "s10", "s11",
      "t3", "t4", "t5", "t6">>
get_register_label(reg) ==
    IF reg \in 0..31
    THEN [val |-> RegisterLabels[reg + 1], panicked |-> FALSE]
    ELSE [val |-> "", panicked |-> TRUE]

\* the i32 v as its bit pattern (`as u32`)
IntWord(v) == IF v >= 0 THEN NatWord(v) ELSE (0..31) \ NatWord(-v - 1)

\* "{:0x}" of an i32: the hexadecimal digits of its bit pattern, the
\* leading zeros dropped
HexDigit == <<"0", "1", "2", "3", "4", "5", "6", "7", "8", "9",
              "a", "b", "c", "d", "e", "f">>
LowerHex(v) ==
    LET nibble(k) == FieldOf(IntWord(v), 35 - 4 * k, 32 - 4 * k)
        first == IF \E k \in 1..8 : nibble(k) # 0
                 THEN CHOOSE k \in 1..8 :
                        nibble(k) # 0 /\ \A j \in 1..(k - 1) : nibble(j) = 0
                 ELSE 8
    IN  [k \in 1..(9 - first) |-> HexDigit[nibble(first + k - 1) + 1]]

\* impl Display for PseudoInstrWith1Instr: the pieces written, in order
PseudoInstrWith1Instr_fmt(self) ==
    <<self.code, "\t">>
    \o (IF self.rd # None
        THEN <<get_register_label(self.rd[1]).val, ", ">> ELSE <<>>)
    \o (IF self.rs # None
        THEN <<get_register_label(self.rs[1]).val>> ELSE <<>>)
    \o (IF self.rt # None
        THEN <<", ", get_register_label(self.rt[1]).val, ", ">> ELSE <<>>)
    \o (IF self.offset # None
        THEN <<"0x">> \o LowerHex(self.offset[1]) ELSE <<>>)

\* print!("{}", pseudo)
Render ==
    /\ dis_pc = "collapsed"
    /\ rendered' = PseudoInstrWith1Instr_fmt(pseudo[1])
    /\ dis_pc' = "rendered"
    /\ UNCHANGED <<pseudo, eq_in, eq_ret, eq_pc, dec_vars, rf_vars, mem_vars,
                   alu_vars, sim_vars>>

\* the words whose Instructions are compared: unassigned major opcodes,
\* recognised opcodes with an unassigned funct3, and instructions that
\* differ in one field or in the mnemonic only
EqWords ==
    {W(\h0000, \h0000), W(\hffff, \hffff), Word(0, 1, 3, 13, 20, \h20),
     Word(RV32_OP_CODES_MEM_LD, 1, 3, 13, 0, 0),
     Word(RV32_OP_CODES_MEM_LD, 14, 3, 13, 0, 0),
     Word(RV32_OP_CODES_MEM_LD, 1, 6, 13, 0, 0),
     Word(RV32_OP_CODES_JALR, 1, 3, 13, 0, 0),
     Word(RV32_OP_CODES_BR, 0, 2, 13, 20, 0),
     Word(RV32_OP_CODES_BR, 0, 3, 13, 20, 0),
     Word(RV32_OP_CODES_BR, 0, 5, 13, 20, 0),
     Word(RV32_OP_CODES_MEM_ST, 0, 3, 13, 20, 0),
     Word(RV32_OP_CODES_ARITH_IMM, 1, 0, 13, 20, 0),
     Word(RV32_OP_CODES_ARITH_IMM, 14, 0, 13, 20, 0),
     Word(RV32_OP_CODES_ARITH_IMM, 1, 0, 22, 20, 0),
     Word(RV32_OP_CODES_ARITH_IMM, 1, 0, 13, 31, 0),
     Word(RV32_OP_CODES_ARITH_IMM, 1, 1, 13, 20, 0),
     Word(RV32_OP_CODES_ARITH_IMM, 1, 1, 13, 31, 0),
     Word(RV32_OP_CODES_ARITH_REG, 1, 0, 13, 20, 0),
     Word(RV32_OP_CODES_ARITH_REG, 1, 0, 13, 20, \h20),
     Word(RV32_OP_CODES_ARITH_REG, 1, 0, 13, 20, 1),
     Word(RV32_OP_CODES_ARITH_REG, 1, 0, 13, 31, 0),
     W(\hdead, \h0737), W(\hdead, \h0717)}

\* the comparison before its call, on two of the words above
EqInit ==
    /\ pseudo = None /\ dis_pc = "start" /\ rendered = <<>>
    /\ eq_in \in EqWords \X EqWords /\ eq_ret = FALSE /\ eq_pc = "ready"

\* Instruction::new(lhs) == Instruction::new(rhs)
Compare ==
    /\ eq_pc = "ready"
    /\ eq_ret' = Instruction_eq(Instruction_new(eq_in[1]), Instruction_new(eq_in[2]))
    /\ eq_pc' = "done"
    /\ UNCHANGED <<pseudo, dis_pc, rendered, eq_in, dec_vars, rf_vars, mem_vars,
                   alu_vars, sim_vars>>

-----------------------------------------------------------------------------
(* main.rs and bin/simulator.rs: fn main *)

\* The loop walks the whole memory before a fetch repeats, and the whole u32
\* range before pc overflows.  The simulator is modelled with a Memory of
\* SimAddrSize in place of MEMORY_ADDR_SIZE, its addresses folded to
\* SimAddrSize + 1 bits before every call, and with a pc of SimPcBits bits
\* in place of 32.
SimAddrSize == 2
SimPcBits == 4

\* the address as the scaled Memory sees it
SimWindow(addr) ==
    BitAnd(addr, NatWord((2 ^ SimAddrSize) + (2 ^ SimAddrSize) - 1))

\* Memory::new of the scaled Memory
SimIdx == 0..(((2 ^ SimAddrSize) + (2 ^ SimAddrSize)) \div 4 - 1)
SimMemory_new ==
    <<[i \in SimIdx |-> 0], [i \in SimIdx |-> 0],
      [i \in SimIdx |-> 0], [i \in SimIdx |-> 0]>>

\* the words the chunks are made of: an unassigned opcode, addi a0, zero, 10
\* and a load with the unassigned funct3 3
ZeroWord == W(\h0000, \h0000)
AddiWord == W(\h00a0, \h0513)
Funct3Word == W(\h0000, \h3003)

\* the bytes of a word in the order of the file, and of a sequence of words
BytesOf(word) == [k \in 1..4 |-> FieldOf(word, 8 * k - 1, 8 * k - 8)]
RECURSIVE Flatten(_)
Flatten(words) ==
    IF words = <<>> THEN <<>> ELSE BytesOf(Head(words)) \o Flatten(Tail(words))

\* the chunks of the files: of one word or two, of a word and two more bytes
\* and of no byte, at address 0 or 4
Chunks ==
    {[address |-> 0, data |-> Flatten(<<AddiWord, AddiWord>>)],
     [address |-> 0, data |-> Flatten(<<Funct3Word>>)],
     [address |-> 0, data |-> Flatten(<<ZeroWord, AddiWord>>)],
     [address |-> 0, data |-> <<19, 5, 160, 0, 3, 48>>],
     [address |-> 4, data |-> Flatten(<<AddiWord>>)],
     [address |-> 4, data |-> Flatten(<<Funct3Word, AddiWord>>)],
     [address |-> 4, data |-> <<>>]}

\* mem_data: the files of at most MaxChunks chunks
MaxChunks == 2
ChunkLists == UNION {[1..n -> Chunks] : n \in 0..MaxChunks}

\* main.rs: for offset in 0..chunk.length { write_data(SB, address, data) }
RECURSIVE load_chunk_main(_, _, _)
load_chunk_main(m, chunk, offset) ==
    IF offset >= Len(chunk.data) THEN m
    ELSE LET address == NatWord(chunk.address + offset)
             r == write_data(m, MemStoreOp_from("SB"), SimWindow(address),
                             FromU8(chunk.data[offset + 1]))
         IN  load_chunk_main(r.banks, chunk, offset + 1)

\* chunk.get_word(actual_offset) of the crate adapt_mem_adept: the four bytes
\* at the offset as one u32, in the byte order the crate assembles them in
get_word(chunk, actual_offset, order) ==
    UNION {Shl(FromU8(chunk.data[actual_offset + k + 1]),
               IF order = "little" THEN 8 * k ELSE 24 - 8 * k) : k \in 0..3}

\* bin/simulator.rs: for offset in 0..(chunk.get_contents_length() >> 2)
\* { write_data(SB, address, chunk.get_word(actual_offset).unwrap()) }
RECURSIVE load_chunk_simulator(_, _, _, _)
load_chunk_simulator(m, chunk, offset, order) ==
    IF offset >= Len(chunk.data) \div 4 THEN m
    ELSE LET actual_offset == offset * 4
             address == NatWord(chunk.address + actual_offset)
             r == write_data(m, MemStoreOp_from("SB"), SimWindow(address),
                             get_word(chunk, actual_offset, order))
         IN  load_chunk_simulator(r.banks, chunk, offset + 1, order)

\* for chunk in mem_data { ... }
RECURSIVE load_chunks(_, _, _, _)
load_chunks(m, bin, chunks, order) ==
    IF chunks = <<>> THEN m
    ELSE load_chunks(IF bin = "main"
                     THEN load_chunk_main(m, Head(chunks), 0)
                     ELSE load_chunk_simulator(m, Head(chunks), 0, order),
                     bin, Tail(chunks), order)

\* the rows counted: those of one walk of the pc range and two more
MaxRows == 2 ^ (SimPcBits - 2) + 2

\* one iteration of the loop with `break` in the other arm (a faulty variant
\* of loop_body)
loop_body_BreaksOnValid(m, pc) ==
    LET instruction == read_pc(m, SimWindow(NatWord(pc)))
        instr == Instruction_new(instruction)
    IN  IF is_valid(instr)
        THEN [break |-> TRUE, row |-> None]
        ELSE [break |-> FALSE, row |-> Some(instr)]

\* one iteration of the loop, up to println!
loop_body(m, pc) ==
    LET instruction == read_pc(m, SimWindow(NatWord(pc)))
        instr == Instruction_new(instruction)
    IN  IF ~is_valid(instr)
        THEN [break |-> TRUE, row |-> None]
        ELSE [break |-> FALSE, row |-> Some(instr)]

\* the simulator in the specifications of the other components
SimIdle ==
    /\ sim_bin = "main" /\ sim_chunks = <<>> /\ sim_mem = SimMemory_new
    /\ sim_pc = 0 /\ sim_state = "loading" /\ sim_rows = 0 /\ sim_last = None

\* main before the chunks are stored: either binary, on any file
SimInit ==
    /\ sim_bin \in {"main", "simulator"} /\ sim_chunks \in ChunkLists
    /\ sim_mem = SimMemory_new
    /\ sim_pc = 0 /\ sim_state = "loading" /\ sim_rows = 0 /\ sim_last = None

\* the build of the simulator, with or without overflow checks
SimBuild ==
    /\ overflow_checks \in BOOLEAN
    /\ alu_in = [instr |-> "Invalid", op_a |-> {}, op_b |-> {}, imm |-> {}]
    /\ alu_ret = 0
    /\ alu_panicked = FALSE
    /\ alu_pc = "ready"

\* let mut my_mem = Box::new(Memory::new()); for chunk in mem_data { ... };
\* let mut pc = 0 as u32
Load ==
    /\ sim_state = "loading"
    /\ \E order \in {"little", "big"} :
         sim_mem' = load_chunks(SimMemory_new, sim_bin, sim_chunks, order)
    /\ sim_pc' = 0
    /\ sim_state' = "running"
    /\ UNCHANGED <<sim_bin, sim_chunks, sim_rows, sim_last, dec_vars, rf_vars,
                   mem_vars, alu_vars, dis_vars>>

\* loop { ...; if !decoded.is_valid() { break; } println!(...); pc += 4; }
Step ==
    /\ sim_state = "running"
    /\ LET body == loop_body(sim_mem, sim_pc)
       IN  IF body.break
           THEN /\ sim_state' = "halted"
                /\ UNCHANGED <<sim_pc, sim_rows, sim_last>>
           ELSE /\ sim_last' = [pc |-> sim_pc, row |-> body.row[1]]
                /\ sim_rows' = IF sim_rows < MaxRows THEN sim_rows + 1 ELSE sim_rows
                /\ IF sim_pc + 4 >= 2 ^ SimPcBits /\ overflow_checks
                   THEN sim_state' = "panicked" /\ sim_pc' = sim_pc
                   ELSE /\ sim_state' = "running"
                        /\ sim_pc' = (sim_pc + 4) % (2 ^ SimPcBits)
    /\ UNCHANGED <<sim_bin, sim_chunks, sim_mem, dec_vars, rf_vars, mem_vars,
                   alu_vars, dis_vars>>

\* a step of main seen from outside: it is loading or in the loop, and moves
\* to the loop, to another pc or to its end
Proceed ==
    /\ sim_state \in {"loading", "running"}
    /\ sim_state' \in {"running", "halted", "panicked"}
    /\ sim_pc' \in 0..(2 ^ SimPcBits - 1)

-----------------------------------------------------------------------------
(* The specifications: one per component, the others left as constructed *)

InitDecoder == DecInit /\ RfInit /\ MemInit /\ AluIdle /\ DisInit /\ SimIdle
InitRegisterFile == DecIdle /\ RfInit /\ MemInit /\ AluIdle /\ DisInit /\ SimIdle
InitMemory == DecIdle /\ RfInit /\ MemInit /\ AluIdle /\ DisInit /\ SimIdle
InitAlu == DecIdle /\ RfInit /\ MemInit /\ AluInit /\ DisInit /\ SimIdle
InitEquality == DecIdle /\ RfInit /\ MemInit /\ AluIdle /\ EqInit /\ SimIdle
InitSimulator == DecIdle /\ RfInit /\ MemInit /\ SimBuild /\ DisInit /\ SimInit
InitDisassembler == DecInit /\ RfInit /\ MemInit /\ AluIdle /\ DisInit /\ SimIdle

NextDecoder == Decode
NextRegisterFile == RfWrite \/ RfRead
NextMemory == MemWrite \/ MemLoad \/ MemFetch
NextAlu == AluCall
NextEquality == Compare
NextDisassembler == Decode \/ Collapse \/ Render
NextSimulator == Load \/ Step

SpecDecoder == InitDecoder /\ [][NextDecoder]_vars
SpecRegisterFile == InitRegisterFile /\ [][NextRegisterFile]_vars
SpecMemory == InitMemory /\ [][NextMemory]_vars
SpecAlu == InitAlu /\ [][NextAlu]_vars
SpecEquality == InitEquality /\ [][NextEquality]_vars
SpecDisassembler == InitDisassembler /\ [][NextDisassembler]_vars
SpecSimulator == InitSimulator /\ [][NextSimulator]_vars

\* main goes on while it has not ended: every step of Load and of Step is
\* a step of Proceed, which is enabled exactly when one of them is
SpecSimulatorLive == SpecSimulator /\ WF_<<sim_state, sim_pc>>(Proceed)

-----------------------------------------------------------------------------
(* Claims on the classifier and the decoder, under SpecDecoder *)

\* the fields of the decoded word
OpCodeOf(raw) == FieldOf(raw, 6, 0)
Funct3Of(raw) == FieldOf(raw, 14, 12)
AltBitOf(raw) == 30 \in raw

\* the value of an n-bit two's complement number
SignExtend(v, n) == IF v >= 2 ^ (n - 1) THEN v - 2 ^ n ELSE v

\* the classification table, by opcode and funct3 (index funct3 + 1)
TableFormat(op) ==
    CASE op = 55 -> "U" [] op = 23 -> "U" [] op = 111 -> "J" [] op = 103 -> "I"
      [] op = 99 -> "B" [] op = 3 -> "I" [] op = 35 -> "S" [] op = 51 -> "R"
      [] op = 19 -> "I" [] OTHER -> "Invalid"

TableRows ==
    [jalr |-> <<"JALR", "Invalid", "Invalid", "Invalid",
                "Invalid", "Invalid", "Invalid", "Invalid">>,
     br   |-> <<"BEQ", "BNE", "Invalid", "Invalid", "BLT", "BGE", "BLTU", "BGEU">>,
     ld   |-> <<"LB", "LH", "LW", "Invalid", "LBU", "LHU", "Invalid", "Invalid">>,
     st   |-> <<"SB", "SH", "SW", "Invalid", "Invalid", "Invalid", "Invalid", "Invalid">>,
     reg  |-> <<"ADD", "SLL", "SLT", "SLTU", "XOR", "SRL", "OR", "AND">>,
     alt_reg |-> <<"SUB", "SLL", "SLT", "SLTU", "XOR", "SRA", "OR", "AND">>,
     imm  |-> <<"ADDI", "SLLI", "SLTI", "SLTIU", "XORI", "SRLI", "ORI", "ANDI">>,
     alt_imm |-> <<"ADDI", "SLLI", "SLTI", "SLTIU", "XORI", "SRAI", "ORI", "ANDI">>]

TableMnemonic(op, funct3, alt_bit) ==
    CASE op = 55 -> "LUI"
      [] op = 23 -> "AUIPC"
      [] op = 111 -> "JAL"
      [] op = 103 -> TableRows.jalr[funct3 + 1]
      [] op = 99 -> TableRows.br[funct3 + 1]
      [] op = 3 -> TableRows.ld[funct3 + 1]
      [] op = 35 -> TableRows.st[funct3 + 1]
      [] op = 51 -> IF alt_bit THEN TableRows.alt_reg[funct3 + 1]
                    ELSE TableRows.reg[funct3 + 1]
      [] op = 19 -> IF alt_bit THEN TableRows.alt_imm[funct3 + 1]
                    ELSE TableRows.imm[funct3 + 1]
      [] OTHER -> "Invalid"

\* C1: for every opcode, funct3 and alt bit the classifier returns the format
\* fixed by the opcode alone and the mnemonic of the classification table.
C1_ClassificationTable ==
    dec_pc = "decoded" =>
        /\ decoded.instr.instr_type = TableFormat(OpCodeOf(raw_instr))
        /\ decoded.instr.instr_op =
              TableMnemonic(OpCodeOf(raw_instr), Funct3Of(raw_instr), AltBitOf(raw_instr))

\* a register-register word with funct3 0 and the alt bit set was decoded as SUB
C1_Witness ==
    /\ dec_pc = "decoded"
    /\ OpCodeOf(raw_instr) = 51 /\ Funct3Of(raw_instr) = 0 /\ AltBitOf(raw_instr)
    /\ decoded.instr = [instr_type |-> "R", instr_op |-> "SUB"]

\* the words that map to no RV32I mnemonic: an unassigned major opcode, or a
\* recognised one with an unassigned funct3
UnassignedFunct3(op, funct3) ==
    \/ op = 103 /\ funct3 /= 0
    \/ op = 99 /\ funct3 \in {2, 3}
    \/ op = 3 /\ funct3 \in {3, 6, 7}
    \/ op = 35 /\ funct3 >= 3
MapsToNoMnemonic(raw) ==
    \/ OpCodeOf(raw) \notin {55, 23, 111, 103, 99, 3, 35, 51, 19}
    \/ UnassignedFunct3(OpCodeOf(raw), Funct3Of(raw))

\* C2 as stated: every word that maps to no RV32I mnemonic decodes to format
\* Invalid with mnemonic Invalid, and is_valid() is false.
C2_InvalidFormatAndMnemonic ==
    (dec_pc = "decoded" /\ MapsToNoMnemonic(raw_instr)) =>
        /\ decoded.instr.instr_type = "Invalid"
        /\ decoded.instr.instr_op = "Invalid"
        /\ ~is_valid(decoded)

\* C2 as amended: a word maps to no RV32I mnemonic exactly when its mnemonic is
\* Invalid; the format is Invalid and is_valid() false only for an unassigned
\* major opcode, while a recognised major opcode with an unassigned funct3
\* keeps the format of its opcode (I, B, I, S) and is_valid() is true.
C2_InvalidMnemonicOnly ==
    dec_pc = "decoded" =>
        /\ MapsToNoMnemonic(raw_instr) <=> decoded.instr.instr_op = "Invalid"
        /\ UnassignedFunct3(OpCodeOf(raw_instr), Funct3Of(raw_instr)) =>
              /\ decoded.instr.instr_type =
                    (CASE OpCodeOf(raw_instr) = 103 -> "I"
                       [] OpCodeOf(raw_instr) = 99 -> "B"
                       [] OpCodeOf(raw_instr) = 3 -> "I"
                       [] OpCodeOf(raw_instr) = 35 -> "S")
              /\ is_valid(decoded)
        /\ (MapsToNoMnemonic(raw_instr)
                /\ ~UnassignedFunct3(OpCodeOf(raw_instr), Funct3Of(raw_instr))) =>
              /\ decoded.instr.instr_type = "Invalid"
              /\ ~is_valid(decoded)

\* a load word with the unassigned funct3 3 was decoded
C2_Witness ==
    /\ dec_pc = "decoded"
    /\ OpCodeOf(raw_instr) = 3 /\ Funct3Of(raw_instr) = 3
    /\ decoded.instr = [instr_type |-> "I", instr_op |-> "Invalid"]

\* the immediates of the formats, from the bits of the word
RefImmI(raw) == SignExtend(FieldOf(raw, 31, 20), 12)
RefImmS(raw) == SignExtend(FieldOf(raw, 31, 25) * 32 + FieldOf(raw, 11, 7), 12)
RefImmB(raw) ==
    SignExtend(FieldOf(raw, 31, 31) * 4096 + FieldOf(raw, 7, 7) * 2048
                   + FieldOf(raw, 30, 25) * 32 + FieldOf(raw, 11, 8) * 2, 13)
RefImmJ(raw) ==
    SignExtend(FieldOf(raw, 31, 31) * 1048576 + FieldOf(raw, 19, 12) * 4096
                   + FieldOf(raw, 20, 20) * 2048 + FieldOf(raw, 30, 21) * 2, 21)

\* C3: for every word of format I (not a shift), S, B or J the decoded imm is
\* the sign-extended value of the format's immediate bits; B and J immediates
\* are even and within [-4096, 4094] and [-2^20, 2^20 - 2].
C3_SignExtendedImmediates ==
    dec_pc = "decoded" =>
        /\ (decoded.instr.instr_type = "I"
                /\ decoded.instr.instr_op \notin {"SLLI", "SRLI", "SRAI"}) =>
              decoded.imm = Some(RefImmI(raw_instr))
        /\ decoded.instr.instr_type = "S" => decoded.imm = Some(RefImmS(raw_instr))
        /\ decoded.instr.instr_type = "B" =>
              /\ decoded.imm = Some(RefImmB(raw_instr))
              /\ decoded.imm[1] % 2 = 0
              /\ decoded.imm[1] >= -4096 /\ decoded.imm[1] <= 4094
        /\ decoded.instr.instr_type = "J" =>
              /\ decoded.imm = Some(RefImmJ(raw_instr))
              /\ decoded.imm[1] % 2 = 0
              /\ decoded.imm[1] >= -1048576 /\ decoded.imm[1] <= 1048574

\* a branch whose only immediate bit is bit 31 was decoded to imm -4096
C3_Witness ==
    /\ dec_pc = "decoded"
    /\ decoded.instr.instr_type = "B"
    /\ 31 \in raw_instr
    /\ decoded.imm = Some(-4096)

\* C4 as stated: for every LUI or AUIPC word the decoded imm is the word with
\* its low 12 bits cleared (bits 31:12 kept in place), as a signed value.
C4_UpperImmediate ==
    (dec_pc = "decoded" /\ OpCodeOf(raw_instr) \in {55, 23}) =>
        decoded.imm = Some(AsI32(raw_instr \ (0..11)))

\* C5: rd is present iff the format is R/I/U/J, rs1 iff R/I/S/B, rs2 iff R/S/B,
\* shamt iff the mnemonic is SLLI/SRLI/SRAI, imm iff the format is I/S/B/U/J and
\* shamt is absent; imm and shamt are never both present and an Invalid
\* format has none of the five.
C5_FieldPresence ==
    dec_pc = "decoded" =>
        /\ decoded.rd /= None <=> decoded.instr.instr_type \in {"R", "I", "U", "J"}
        /\ decoded.rs1 /= None <=> decoded.instr.instr_type \in {"R", "I", "S", "B"}
        /\ decoded.rs2 /= None <=> decoded.instr.instr_type \in {"R", "S", "B"}
        /\ decoded.shamt /= None <=> decoded.instr.instr_op \in {"SLLI", "SRLI", "SRAI"}
        /\ decoded.imm /= None <=>
              /\ decoded.instr.instr_type \in {"I", "S", "B", "U", "J"}
              /\ decoded.shamt = None
        /\ ~(decoded.imm /= None /\ decoded.shamt /= None)
        /\ decoded.instr.instr_type = "Invalid" =>
              /\ decoded.rd = None /\ decoded.rs1 = None /\ decoded.rs2 = None
              /\ decoded.shamt = None /\ decoded.imm = None

\* SRAI rd=4, rs1=3, shamt=6 was decoded: shamt present, imm absent
C5_Witness ==
    /\ dec_pc = "decoded"
    /\ raw_instr = W(\h4061, \hd213)
    /\ decoded = [instr |-> [instr_type |-> "I", instr_op |-> "SRAI"],
                  rd |-> Some(4), rs1 |-> Some(3), rs2 |-> None,
                  shamt |-> Some(6), imm |-> None]

-----------------------------------------------------------------------------
(* Claims on the register file, under SpecRegisterFile *)

\* the ids that name a register other than x0
ValidRegIds == 1..31

\* the value the last write call to id left, 0 if there was none
LastWritten(id) == IF rf_shadow[id] = None THEN 0 ELSE rf_shadow[id][1]

C6_ReadsZero ==
    /\ ~rf_panicked
    /\ \A id \in RegIds \ ValidRegIds, other \in RegIds :
         /\ read(registers, id, other).val[1] = 0
         /\ read(registers, other, id).val[2] = 0
    /\ rf_call.fn = "read" =>
         /\ rf_call.a \notin ValidRegIds => rf_ret[1] = 0
         /\ rf_call.b \notin ValidRegIds => rf_ret[2] = 0

C6_WriteIgnored ==
    (rf_call'.fn = "write" /\ rf_call'.a \notin ValidRegIds) =>
        registers' = registers /\ ~rf_panicked'

\* C6: after any sequence of writes, a read of index 0 or of an index >= 32
\* yields 0, and a write whose index is 0 or >= 32 never fails and leaves
\* every register unchanged.
C6_ZeroAndOutOfRange == [](C6_ReadsZero) /\ [][C6_WriteIgnored]_vars

\* index 0 and index 32 were both written, then read
C6_Witness ==
    /\ rf_call = [fn |-> "read", a |-> 0, b |-> 32]
    /\ rf_shadow[0] /= None /\ rf_shadow[32] /= None
    /\ rf_ret = <<0, 0>>

C7_ReadsLastWrite ==
    /\ \A id \in RegIds \cap ValidRegIds, other \in RegIds :
         /\ read(registers, id, other).val[1] = LastWritten(id)
         /\ read(registers, other, id).val[2] = LastWritten(id)
    /\ rf_call.fn = "read" =>
         /\ rf_call.a \in ValidRegIds => rf_ret[1] = LastWritten(rf_call.a)
         /\ rf_call.b \in ValidRegIds => rf_ret[2] = LastWritten(rf_call.b)

C7_WriteFrame ==
    (rf_call'.fn = "write" /\ rf_call'.a \in ValidRegIds) =>
        \A id \in ValidRegIds \ {rf_call'.a} :
            read_port(registers', id) = read_port(registers, id)

\* C7: for every index 1..31 a read (in either port) returns the value of the
\* most recent write to it, or 0 if it was never written; a write to an index
\* changes no other register.
C7_LastWriteWins == [](C7_ReadsLastWrite) /\ [][C7_WriteFrame]_vars

\* register 31 was written twice, then read back in both ports
C7_Witness ==
    /\ rf_call = [fn |-> "read", a |-> 31, b |-> 31]
    /\ rf_writes = 2
    /\ rf_shadow[31] = Some(-74)
    /\ rf_shadow[16] = None /\ rf_shadow[1] = None
    /\ rf_ret = <<-74, -74>>

-----------------------------------------------------------------------------
(* Claims on the memory, under SpecMemory *)

\* the operations that are not the Invalid sentinels
RealLoadOps == MemLoadOp \ {"InvalidLoad"}
RealStoreOps == MemStoreOp \ {"InvalidStore"}

\* addr & 0x001f_ffff, addr & 0x003f_ffff, addr ^ 0x0020_0000
Low21(addr) == BitAnd(addr, W(\h001f, \hffff))
Low22(addr) == BitAnd(addr, W(\h003f, \hffff))
FlipBit21(addr) == (addr \ {21}) \cup ({21} \ addr)

C8_Low22Alias ==
    \A addr \in ProbeAddrs :
        /\ \A op \in MemLoadOp :
             load_data(Banks, op, addr) = load_data(Banks, op, Low22(addr))
        /\ read_pc(Banks, addr) = read_pc(Banks, Low22(addr))
        /\ \A op \in MemStoreOp, data \in StoreData :
             write_data(Banks, op, addr, data) = write_data(Banks, op, Low22(addr), data)

C8_Bit21Selects ==
    (mem_call'.fn = "write_data" /\ ~mem_panicked') =>
        /\ \A k \in 0..3 :
             LET other == BitOr(FlipBit21(mem_call'.addr \ {0, 1}), NatWord(k))
             IN  load_data(Banks', "LoadByteUnsigned", other)
                     = load_data(Banks, "LoadByteUnsigned", other)
        /\ load_data(Banks', "LoadByteUnsigned", mem_call'.addr).val
               = AsU8(mem_call'.data)

C9_ByteRoundTrip ==
    (mem_call.fn = "write_data" /\ mem_call.op = "StoreByte"
        /\ mem_call.data \subseteq 0..7) =>
        /\ ~mem_panicked
        /\ load_data(Banks, "LoadByteUnsigned", mem_call.addr)
              = [val |-> AsNat(mem_call.data), panicked |-> FALSE]

\* the byte 0x80 was stored at an odd address over a word stored before
C9_Witness ==
    /\ mem_call = [fn |-> "write_data", op |-> "StoreByte",
                   addr |-> W(\hffe0, \h0003), data |-> W(\h0000, \h0080)]
    /\ mem_ops = 2
    /\ bank_2[mask_addr(W(\hffe0, \h0000)) \div 4] = 187
    /\ load_data(Banks, "LoadByteUnsigned", W(\hffe0, \h0003)).val = 128

\* C10: for every 4-aligned address a and every w, after
\* write_data(StoreWord, a, w) a LoadWord at a returns w as i32 and
\* LoadByteUnsigned at a+k returns byte k of w, k = 0..3 (little-endian).
C10_WordRoundTripLittleEndian ==
    (mem_call.fn = "write_data" /\ mem_call.op = "StoreWord"
        /\ mem_call.addr \cap {0, 1} = {}) =>
        /\ ~mem_panicked
        /\ load_data(Banks, "LoadWord", mem_call.addr)
              = [val |-> AsI32(mem_call.data), panicked |-> FALSE]
        /\ \A k \in 0..3 :
             load_data(Banks, "LoadByteUnsigned", BitOr(mem_call.addr, NatWord(k)))
                 = [val |-> FieldOf(mem_call.data, 8 * k + 7, 8 * k),
                    panicked |-> FALSE]

\* 0xaabbccdd was stored at 0xffe0_0000: the byte at a is 0xdd, at a+3 0xaa
C10_Witness ==
    /\ mem_call = [fn |-> "write_data", op |-> "StoreWord",
                   addr |-> W(\hffe0, \h0000), data |-> W(\haabb, \hccdd)]
    /\ ~mem_panicked
    /\ load_data(Banks, "LoadByteUnsigned", W(\hffe0, \h0000)).val = 221
    /\ load_data(Banks, "LoadByteUnsigned", W(\hffe0, \h0003)).val = 170

\* the byte at the byte address n, below 2^22: bank n mod 4, slot n div 4
\* (a slot no modelled address selects is never written and holds 0)
ByteAt(m, n) ==
    LET k == n % (2 ^ (MEMORY_ADDR_SIZE + 1))
    IN  IF (k \div 4) \in MemIdx THEN m[(k % 4) + 1][k \div 4] ELSE 0

\* the low two bits of an address
AddrLsbs(addr) == AsNat(BitAnd(addr, {0, 1}))

C12_WordAlignmentFatal ==
    /\ \A addr \in ProbeAddrs :
         /\ load_data(Banks, "LoadWord", addr).panicked <=> (AddrLsbs(addr) # 0)
         /\ \A data \in StoreData :
              write_data(Banks, "StoreWord", addr, data).panicked
                  <=> (AddrLsbs(addr) # 0)
    /\ (mem_call.op \in {"LoadWord", "StoreWord"}) =>
          (mem_panicked <=> (AddrLsbs(mem_call.addr) # 0))

\* a LoadWord at 0xffe0_0001 ended in panic!
C12_Witness ==
    /\ mem_call = [fn |-> "load_data", op |-> "LoadWord",
                   addr |-> W(\hffe0, \h0001), data |-> {}]
    /\ mem_panicked

\* the half operations
HalfLoadOps == {"LoadHalf", "LoadHalfUnsigned"}

WordAt(m, n) ==
    UNION {Shl(FromU8(ByteAt(m, n + k)), 8 * k) : k \in 0..3}

\* C14 as stated: in every memory state, for every pc, 4-aligned or not,
\* read_pc(pc) returns the little-endian assembly of the four bytes at the
\* masked addresses pc, pc+1, pc+2 and pc+3, and for a 4-aligned pc it equals
\* load_data(LoadWord, pc) seen as u32.
C14_FetchAtAnyPc ==
    \A pc \in ProbeAddrs :
        /\ read_pc(Banks, pc) = WordAt(Banks, AsNat(Low22(pc)))
        /\ (AddrLsbs(pc) = 0) =>
              load_data(Banks, "LoadWord", pc)
                  = [val |-> AsI32(read_pc(Banks, pc)), panicked |-> FALSE]

-----------------------------------------------------------------------------
(* Claims on the ALU, under SpecAlu *)

\* the mnemonics that take the immediate as second operand
ImmediateMnemonics ==
    {"ADDI", "SLTI", "SLTIU", "XORI", "ORI", "ANDI", "SLLI", "SRLI", "SRAI"}

\* what the call of the current state returned
AluResult == [val |-> alu_ret, panicked |-> alu_panicked]

\* the second operand the call of the current state selects
SelectedB ==
    IF alu_in.instr \in ImmediateMnemonics THEN alu_in.imm ELSE alu_in.op_b

\* C15: AluOp::from sets switch_2_imm exactly for ADDI, SLTI, SLTIU, XORI,
\* ORI, ANDI, SLLI, SRLI and SRAI; for those the result of alu is the same
\* whatever op_b is, and for every other mnemonic it is the same whatever
\* imm is.
C15_UnselectedOperandIgnored ==
    /\ \A instr \in RV32I :
         AluOp_from(instr).switch_2_imm <=> (instr \in ImmediateMnemonics)
    /\ (alu_pc = "done") =>
         \A other \in AluOperands :
            IF alu_in.instr \in ImmediateMnemonics
            THEN alu(alu_in.op_a, other, alu_in.imm, AluOp_from(alu_in.instr))
                    = AluResult
            ELSE alu(alu_in.op_a, alu_in.op_b, other, AluOp_from(alu_in.instr))
                    = AluResult

\* SRAI of -12 with op_b = 0 and imm = 35 returned -12 >> 3 = -2
C15_Witness ==
    /\ alu_pc = "done" /\ ~alu_panicked
    /\ alu_in = [instr |-> "SRAI", op_a |-> W(\hffff, \hfff4),
                 op_b |-> W(\h0000, \h0000), imm |-> W(\h0000, \h0023)]
    /\ alu_ret = -2

\* x + y and x - y reduced modulo 2^32 into the range of i32
WrappedSum(x, y) ==
    IF x >= 0 /\ y >= 0 /\ x > 2147483647 - y
    THEN (x - 2147483647 - 1) + (y - 2147483647 - 1)
    ELSE IF x < 0 /\ y < 0 /\ x < (-2147483647 - 1) - y
    THEN (x + 2147483647 + 1) + (y + 2147483647 + 1)
    ELSE x + y
WrappedDifference(x, y) ==
    IF x >= 0 /\ y < 0 /\ x > 2147483647 + y
    THEN (x - 2147483647 - 1) - (y + 2147483647 + 1)
    ELSE IF x < 0 /\ y >= 0 /\ x < (-2147483647 - 1) + y
    THEN (x + 2147483647 + 1) - (y - 2147483647 - 1)
    ELSE x - y

\* C16 as stated: alu has no error path: for every operation and all
\* operands it returns without aborting; Add and Sub (BEQ and BNE included)
\* return a + b and a - b reduced modulo 2^32 as a signed value, and the
\* Invalid operation returns -1 whatever the operands.
C16_NoErrorPathWrapping ==
    (alu_pc = "done") =>
        LET op == AluOpList_from(alu_in.instr)
            a == AsI32(alu_in.op_a)
            b == AsI32(SelectedB)
        IN  /\ ~alu_panicked
            /\ (op = "Add") => alu_ret = WrappedSum(a, b)
            /\ (op = "Sub") => alu_ret = WrappedDifference(a, b)
            /\ (op = "Invalid") => alu_ret = -1

\* the shift amount: the second operand modulo 32
ShiftAmount == AsI32(SelectedB) % 32

\* a shifted by n, bit by bit: left, right with zeros, right with the sign
ShiftedLeft(a, n) == {i \in 0..31 : i >= n /\ (i - n) \in a}
ShiftedRightZeros(a, n) == {i \in 0..31 : (i + n) \in a}
ShiftedRightSign(a, n) == {i \in 0..31 : (IF i + n > 31 THEN 31 ELSE i + n) \in a}

\* C17: Sll, Srl and Sra and their immediate forms use the low 5 bits of
\* the second operand as the shift amount, so alu(a, b) = alu(a, b mod 32);
\* Srl fills with zeros (a result that is not negative for an amount in
\* 1..31) and Sra replicates the sign bit (a result with the sign of a).
C17_ShiftAmountLow5Bits ==
    (alu_pc = "done" /\ AluOpList_from(alu_in.instr) \in {"Sll", "Srl", "Sra"}) =>
        LET op == AluOpList_from(alu_in.instr)
            a == alu_in.op_a
            n == ShiftAmount
        IN  /\ ~alu_panicked
            /\ alu(a, NatWord(n), NatWord(n), AluOp_from(alu_in.instr)) = AluResult
            /\ (op = "Sll") => alu_ret = AsI32(ShiftedLeft(a, n))
            /\ (op = "Srl") =>
                  /\ alu_ret = AsI32(ShiftedRightZeros(a, n))
                  /\ (n \in 1..31) => alu_ret >= 0
            /\ (op = "Sra") =>
                  /\ alu_ret = AsI32(ShiftedRightSign(a, n))
                  /\ (alu_ret < 0) <=> (AsI32(a) < 0)

\* SRA of -12 by 35 returned -12 >> 3 = -2
C17_Witness ==
    /\ alu_pc = "done" /\ ~alu_panicked
    /\ alu_in.instr = "SRA"
    /\ alu_in.op_a = W(\hffff, \hfff4) /\ alu_in.op_b = W(\h0000, \h0023)
    /\ alu_ret = -2

\* a < b as unsigned 32-bit values: at the highest bit where they differ,
\* b has the one
BelowUnsigned(a, b) ==
    \E i \in 0..31 :
        /\ i \in b /\ i \notin a
        /\ \A j \in (i + 1)..31 : (j \in a) <=> (j \in b)

\* C18: SLT, SLTI, BLT and BGE return 1 if a < b as signed 32-bit values
\* and 0 otherwise; SLTU, SLTIU, BLTU and BGEU return 1 if a < b as unsigned
\* 32-bit values and 0 otherwise; BGE and BGEU return what BLT and BLTU
\* return on the same operands.
C18_Comparisons ==
    (alu_pc = "done") =>
        LET a == alu_in.op_a
            b == SelectedB
        IN  /\ (alu_in.instr \in {"SLT", "SLTI", "BLT", "BGE"}) =>
                  /\ ~alu_panicked
                  /\ alu_ret = (IF AsI32(a) < AsI32(b) THEN 1 ELSE 0)
            /\ (alu_in.instr \in {"SLTU", "SLTIU", "BLTU", "BGEU"}) =>
                  /\ ~alu_panicked
                  /\ alu_ret = (IF BelowUnsigned(a, b) THEN 1 ELSE 0)
            /\ (alu_in.instr = "BGE") =>
                  alu(a, alu_in.op_b, alu_in.imm, AluOp_from("BLT")) = AluResult
            /\ (alu_in.instr = "BGEU") =>
                  alu(a, alu_in.op_b, alu_in.imm, AluOp_from("BLTU")) = AluResult

\* BGEU of 1 and 0xffff_ffff returned 1: 1 is below as unsigned, not as signed
C18_Witness ==
    /\ alu_pc = "done" /\ ~alu_panicked
    /\ alu_in.instr = "BGEU"
    /\ alu_in.op_a = W(\h0000, \h0001) /\ alu_in.op_b = W(\hffff, \hffff)
    /\ alu_ret = 1

-----------------------------------------------------------------------------
(* Claims on the pseudo-instructions, under SpecDisassembler *)

\* the pseudo-instruction table, in its order, on the instruction i: the
\* condition of each row and what it renders as (the row BLT with rs1 = x0,
\* `bgez`, is the one the note under the table adds)
PseudoTable(i) ==
    LET op == i.instr.instr_op
    IN  << <<IsSomeOf(i.rd, 0) /\ op = "JAL", "j">>,
           <<IsSomeOf(i.rd, 0) /\ op = "JALR" /\ IsSomeOf(i.rs1, 1)
                /\ IsSomeOf(i.imm, 0), "ret">>,
           <<IsSomeOf(i.rd, 0) /\ op = "JALR", "jr">>,
           <<IsSomeOf(i.rd, 0) /\ op = "ADDI" /\ IsSomeOf(i.rs1, 0)
                /\ IsSomeOf(i.imm, 0), "nop">>,
           <<IsSomeOf(i.rd, 1) /\ op = "JAL", "jal">>,
           <<IsSomeOf(i.rd, 1) /\ op = "JALR", "jalr">>,
           <<op = "SUB" /\ IsSomeOf(i.rs2, 0), "neg">>,
           <<op = "SLTU" /\ IsSomeOf(i.rs2, 0), "snez">>,
           <<op = "SLT" /\ IsSomeOf(i.rs2, 0), "sgtz">>,
           <<op = "BGE" /\ IsSomeOf(i.rs2, 0), "blez">>,
           <<op = "BLT" /\ IsSomeOf(i.rs2, 0), "bgtz">>,
           <<op = "SLT" /\ IsSomeOf(i.rs1, 0), "sltz">>,
           <<op = "BEQ" /\ IsSomeOf(i.rs1, 0), "beqz">>,
           <<op = "BNE" /\ IsSomeOf(i.rs1, 0), "bnez">>,
           <<op = "BGE" /\ IsSomeOf(i.rs1, 0), "bgez">>,
           <<op = "BLT" /\ IsSomeOf(i.rs1, 0), "bgez">>,
           <<op = "ADDI" /\ IsSomeOf(i.imm, 0), "mv">>,
           <<op = "XORI" /\ IsSomeOf(i.imm, -1), "not">>,
           <<op = "SLTIU" /\ IsSomeOf(i.imm, 1), "seqz">>,
           <<op = "BLT", "bgt">>,
           <<op = "BGE", "ble">>,
           <<op = "BLTU", "bgtu">>,
           <<op = "BGEU", "bleu">> >>

\* the rows whose condition holds, and what the first of them renders as
\* ("" where none holds)
MatchingRows(i) == {k \in DOMAIN PseudoTable(i) : PseudoTable(i)[k][1]}
FirstMatch(i) ==
    IF MatchingRows(i) = {} THEN ""
    ELSE PseudoTable(i)[CHOOSE k \in MatchingRows(i) :
                            \A j \in MatchingRows(i) : k <= j][2]

\* C19 as stated: PseudoInstrWith1Instr::new selects the first row of the
\* table whose condition holds, in the order of the table, and reports
\* is_pseudo = false exactly when no row matches; every BLT, BGE, BLTU and
\* BGEU matches some row.
C19_FirstMatchingRow ==
    (dis_pc # "start") =>
        /\ pseudo[1].code = FirstMatch(decoded)
        /\ pseudo[1].is_pseudo <=> (MatchingRows(decoded) # {})
        /\ (decoded.instr.instr_op \in {"BLT", "BGE", "BLTU", "BGEU"}) =>
              pseudo[1].is_pseudo

\* C20 as stated: a JALR with rd = x0 collapses to `ret` only when rs1 = x1
\* and imm = 0; with rs1 = x1 and imm other than 0 it is rendered as
\* `jr rs1`, the next row.
C20_RetOnlyAtOffsetZero ==
    (dis_pc # "start" /\ decoded.instr.instr_op = "JALR"
        /\ IsSomeOf(decoded.rd, 0)) =>
        /\ (pseudo[1].code = "ret") <=>
              (IsSomeOf(decoded.rs1, 1) /\ IsSomeOf(decoded.imm, 0))
        /\ (IsSomeOf(decoded.rs1, 1) /\ ~IsSomeOf(decoded.imm, 0)) =>
              (pseudo[1].code = "jr" /\ pseudo[1].rs = Some(1))

\* the register labels of a rendered text, in the order they are written
IsRegisterLabel(piece) == \E k \in 1..32 : RegisterLabels[k] = piece
RegisterOperands(text) == SelectSeq(text, IsRegisterLabel)

\* what each of the four branches collapses to
SwappedBranch(op) ==
    CASE op = "BLT" -> "bgt" [] op = "BGE" -> "ble"
      [] op = "BLTU" -> "bgtu" [] op = "BGEU" -> "bleu"

\* C21 as stated: a BLT, BGE, BLTU or BGEU with rs1 and rs2 other than x0
\* collapses to bgt, ble, bgtu or bleu with the operands swapped: the text
\* lists rs2 first and rs1 second, followed by the offset.
C21_BranchOperandsSwapped ==
    (dis_pc = "rendered"
        /\ decoded.instr.instr_op \in {"BLT", "BGE", "BLTU", "BGEU"}
        /\ ~IsSomeOf(decoded.rs1, 0) /\ ~IsSomeOf(decoded.rs2, 0)) =>
        /\ rendered[1] = SwappedBranch(decoded.instr.instr_op)
        /\ RegisterOperands(rendered)
              = <<RegisterLabels[decoded.rs2[1] + 1],
                  RegisterLabels[decoded.rs1[1] + 1]>>
        /\ SubSeq(rendered, Len(rendered) - Len(LowerHex(decoded.imm[1])) + 1,
                  Len(rendered)) = LowerHex(decoded.imm[1])

\* the canonical encodings: the fields of the I, B and J formats around an
\* immediate given as an i32
EncodeI(op_code, funct3, rd, rs1, imm) ==
    Word(op_code, rd, funct3, rs1, 0, 0) \cup Shl(BitAnd(IntWord(imm), 0..11), 20)
EncodeB(op_code, funct3, rs1, rs2, imm) ==
    LET v == IntWord(imm)
    IN  Word(op_code, 0, funct3, rs1, rs2, 0)
            \cup (IF 12 \in v THEN {31} ELSE {})
            \cup {i + 20 : i \in v \cap (5..10)}
            \cup {i + 7 : i \in v \cap (1..4)}
            \cup (IF 11 \in v THEN {7} ELSE {})
EncodeJ(op_code, rd, imm) ==
    LET v == IntWord(imm)
    IN  Word(op_code, rd, 0, 0, 0, 0)
            \cup (IF 20 \in v THEN {31} ELSE {})
            \cup {i + 20 : i \in v \cap (1..10)}
            \cup (IF 11 \in v THEN {20} ELSE {})
            \cup (v \cap (12..19))

\* an operand of a pseudo form (0 where the form has none)
Operand(opt) == IF opt = None THEN 0 ELSE opt[1]

\* the canonical instruction a pseudo form stands for, after the
\* pseudo-instruction list of the RISC-V specification v2.2
Expand(p) ==
    LET rd == Operand(p.rd)
        rs == Operand(p.rs)
        rt == Operand(p.rt)
        offset == Operand(p.offset)
    IN  CASE p.code = "j" -> EncodeJ(RV32_OP_CODES_JAL, 0, offset)
          [] p.code = "jal" -> EncodeJ(RV32_OP_CODES_JAL, 1, offset)
          [] p.code = "ret" -> EncodeI(RV32_OP_CODES_JALR, 0, 0, 1, 0)
          [] p.code = "jr" -> EncodeI(RV32_OP_CODES_JALR, 0, 0, rs, 0)
          [] p.code = "jalr" -> EncodeI(RV32_OP_CODES_JALR, 0, 1, rs, 0)
          [] p.code = "nop" -> EncodeI(RV32_OP_CODES_ARITH_IMM, 0, 0, 0, 0)
          [] p.code = "mv" -> EncodeI(RV32_OP_CODES_ARITH_IMM, 0, rd, rs, 0)
          [] p.code = "not" -> EncodeI(RV32_OP_CODES_ARITH_IMM, 4, rd, rs, -1)
          [] p.code = "seqz" -> EncodeI(RV32_OP_CODES_ARITH_IMM, 3, rd, rs, 1)
          [] p.code = "neg" -> Word(RV32_OP_CODES_ARITH_REG, rd, 0, 0, rs, \h20)
          [] p.code = "snez" -> Word(RV32_OP_CODES_ARITH_REG, rd, 3, 0, rs, 0)
          [] p.code = "sltz" -> Word(RV32_OP_CODES_ARITH_REG, rd, 2, rs, 0, 0)
          [] p.code = "sgtz" -> Word(RV32_OP_CODES_ARITH_REG, rd, 2, 0, rs, 0)
          [] p.code = "beqz" -> EncodeB(RV32_OP_CODES_BR, 0, rs, 0, offset)
          [] p.code = "bnez" -> EncodeB(RV32_OP_CODES_BR, 1, rs, 0, offset)
          [] p.code = "blez" -> EncodeB(RV32_OP_CODES_BR, 5, 0, rs, offset)
          [] p.code = "bgez" -> EncodeB(RV32_OP_CODES_BR, 5, rs, 0, offset)
          [] p.code = "bltz" -> EncodeB(RV32_OP_CODES_BR, 4, rs, 0, offset)
          [] p.code = "bgtz" -> EncodeB(RV32_OP_CODES_BR, 4, 0, rs, offset)
          [] p.code = "bgt" -> EncodeB(RV32_OP_CODES_BR, 4, rt, rs, offset)
          [] p.code = "ble" -> EncodeB(RV32_OP_CODES_BR, 5, rt, rs, offset)
          [] p.code = "bgtu" -> EncodeB(RV32_OP_CODES_BR, 6, rt, rs, offset)
          [] p.code = "bleu" -> EncodeB(RV32_OP_CODES_BR, 7, rt, rs, offset)
          [] OTHER -> {}

\* C22 as stated: the collapse is conservative: for every decoded
\* instruction that PseudoInstrWith1Instr::new collapses, the canonical
\* encoding of the pseudo form it produced decodes to an Instruction equal to
\* the original.
C22_CollapseConservative ==
    (dis_pc # "start" /\ pseudo[1].is_pseudo) =>
        Instruction_eq(Instruction_new(Expand(pseudo[1])), decoded)

-----------------------------------------------------------------------------
(* Claims on the equality of Instructions, under SpecEquality *)

\* the two Instructions compared in the current state
Lhs == Instruction_new(eq_in[1])
Rhs == Instruction_new(eq_in[2])

\* are all of rd, rs1, rs2, shamt and imm of a and b equal
SameFields(a, b) ==
    /\ a.rd = b.rd /\ a.rs1 = b.rs1 /\ a.rs2 = b.rs2
    /\ a.shamt = b.shamt /\ a.imm = b.imm

\* Instruction::eq is reflexive, symmetric and transitive over the words
EqIsEquivalence ==
    /\ Instruction_eq(Lhs, Lhs) /\ Instruction_eq(Rhs, Rhs)
    /\ eq_ret = Instruction_eq(Rhs, Lhs)
    /\ \A w \in EqWords :
         (eq_ret /\ Instruction_eq(Rhs, Instruction_new(w))) =>
             Instruction_eq(Lhs, Instruction_new(w))

\* C24 as stated: two decoded instructions that are both Invalid (neither
\* word maps to a mnemonic) are equal whatever their other bits; otherwise
\* two instructions are equal iff their mnemonic and all of rd, rs1, rs2,
\* shamt and imm are equal; the relation is an equivalence.
C24_InvalidMnemonicsEqual ==
    (eq_pc = "done") =>
        /\ IF Lhs.instr.instr_op = "Invalid" /\ Rhs.instr.instr_op = "Invalid"
           THEN eq_ret
           ELSE eq_ret <=> (Lhs.instr.instr_op = Rhs.instr.instr_op
                               /\ SameFields(Lhs, Rhs))
        /\ EqIsEquivalence

\* C24 as amended: two decoded instructions whose format is Invalid (the
\* major opcode of neither is assigned) are equal whatever their other bits;
\* any other two, those with a recognised opcode and an unassigned funct3
\* included, are equal iff their format, their mnemonic and all of rd, rs1,
\* rs2, shamt and imm are equal; the relation is an equivalence.
C24_InvalidFormatsEqual ==
    (eq_pc = "done") =>
        /\ IF Lhs.instr.instr_type = "Invalid" /\ Rhs.instr.instr_type = "Invalid"
           THEN eq_ret
           ELSE eq_ret <=> (Lhs.instr.instr_type = Rhs.instr.instr_type
                               /\ Lhs.instr.instr_op = Rhs.instr.instr_op
                               /\ SameFields(Lhs, Rhs))
        /\ EqIsEquivalence

\* two loads with the unassigned funct3 3 that differ in rd were found
\* different, and two words with unassigned major opcodes equal
C24_Witness ==
    /\ eq_pc = "done"
    /\ \/ /\ eq_in = <<Word(RV32_OP_CODES_MEM_LD, 1, 3, 13, 0, 0),
                       Word(RV32_OP_CODES_MEM_LD, 14, 3, 13, 0, 0)>>
          /\ ~eq_ret
       \/ /\ eq_in = <<W(\h0000, \h0000), Word(0, 1, 3, 13, 20, \h20)>>
          /\ eq_ret

-----------------------------------------------------------------------------
(* Claims on the memory operations of a mnemonic, under SpecMemory *)

\* C25: MemLoadOp::from and MemStoreOp::from return an operation for each of
\* the 38 mnemonics: the load of LB, LH, LW, LBU and LHU, the store of SB, SH
\* and SW, and the sentinel InvalidLoad / InvalidStore for every other one;
\* load_data with InvalidLoad and write_data with InvalidStore abort at every
\* address.
C25_SentinelOps ==
    /\ Cardinality(RV32I) = 38
    /\ \A instr \in RV32I :
         /\ MemLoadOp_from(instr) \in MemLoadOp
         /\ MemStoreOp_from(instr) \in MemStoreOp
         /\ MemLoadOp_from(instr) # "InvalidLoad" <=>
                instr \in {"LB", "LH", "LW", "LBU", "LHU"}
         /\ MemStoreOp_from(instr) # "InvalidStore" <=>
                instr \in {"SB", "SH", "SW"}
    /\ <<MemLoadOp_from("LB"), MemLoadOp_from("LH"), MemLoadOp_from("LW"),
         MemLoadOp_from("LBU"), MemLoadOp_from("LHU")>> =
       <<"LoadByte", "LoadHalf", "LoadWord", "LoadByteUnsigned",
         "LoadHalfUnsigned">>
    /\ <<MemStoreOp_from("SB"), MemStoreOp_from("SH"), MemStoreOp_from("SW")>> =
       <<"StoreByte", "StoreHalf", "StoreWord">>
    /\ \A addr \in ProbeAddrs :
         /\ load_data(Banks, MemLoadOp_from("ADD"), addr).panicked
         /\ \A data \in StoreData :
              write_data(Banks, MemStoreOp_from("LW"), addr, data).panicked
    /\ mem_call.op \in {"InvalidLoad", "InvalidStore"} => mem_panicked

\* a store called with the operation of a mnemonic that is no store aborted
\* after a store that did not
C25_Witness ==
    /\ mem_call.fn = "write_data" /\ mem_call.op = "InvalidStore"
    /\ mem_panicked /\ mem_ops = 2
    /\ bank_0[0] = 221

-----------------------------------------------------------------------------
(* Claims on the bytes a store writes, under SpecMemory *)

\* the step is a write_data call that returned / that aborted
StoreReturned ==
    ~mem_panicked /\ ~mem_panicked' /\ mem_ops' = mem_ops + 1
        /\ mem_call'.fn = "write_data"
StoreAborted ==
    ~mem_panicked /\ mem_panicked' /\ mem_call'.fn = "write_data"

\* C29: a store that ends in a fatal outcome (a StoreWord at an address with
\* addr mod 4 # 0, a StoreHalf at addr mod 4 = 3, an InvalidStore) leaves
\* every memory byte unchanged.
C29_FatalStoreWritesNothing ==
    [][StoreAborted => UNCHANGED <<bank_0, bank_1, bank_2, bank_3>>]_vars

\* the number of bytes a store operation writes
StoreWidth(op) ==
    CASE op = "StoreByte" -> 1 [] op = "StoreHalf" -> 2 [] op = "StoreWord" -> 4

\* the offsets k of the bytes of a store at addr that the address p names
CoveredBy(op, addr, p) ==
    {k \in 0..(StoreWidth(op) - 1) :
        mask_addr(p) = (mask_addr(addr) + k) % (2 ^ (MEMORY_ADDR_SIZE + 1))}

\* C30: memory starts all zero, and a write_data that returns changes only
\* the 1, 2 or 4 addressed bytes: at every address whose masked value is
\* none of theirs LoadByteUnsigned returns after the store what it returned
\* before, and at the addressed ones the byte of the data; so every byte
\* holds what the most recent store covering it wrote, or 0.
C30_StoreFrame ==
    /\ \A p \in ProbeAddrs : load_data(Banks, "LoadByteUnsigned", p).val = 0
    /\ [][StoreReturned =>
            \A p \in ProbeAddrs :
               LET c == mem_call'
                   covered == CoveredBy(c.op, c.addr, p)
                   before == load_data(Banks, "LoadByteUnsigned", p)
                   after == load_data(Banks', "LoadByteUnsigned", p)
               IN  /\ ~before.panicked /\ ~after.panicked
                   /\ IF covered = {}
                      THEN after.val = before.val
                      ELSE \A k \in covered :
                              after.val = FieldOf(c.data, 8 * k + 7, 8 * k)
         ]_vars

\* StoreByte of 0x80 at 1 after StoreWord of 0xaabbccdd at 0: the word keeps
\* its bytes 0, 2 and 3, the byte reads back at 0xffc0_0001 as well, and the
\* one at 0x0020_0001 keeps its zero
C30_Witness ==
    /\ mem_call = [fn |-> "write_data", op |-> "StoreByte",
                   addr |-> W(\h0000, \h0001), data |-> W(\h0000, \h0080)]
    /\ ~mem_panicked /\ mem_ops = 2
    /\ <<bank_0[0], bank_1[0], bank_2[0], bank_3[0]>> = <<221, 128, 187, 170>>
    /\ load_data(Banks, "LoadByteUnsigned", W(\hffc0, \h0001)).val = 128
    /\ load_data(Banks, "LoadByteUnsigned", W(\h0020, \h0001)).val = 0

-----------------------------------------------------------------------------
(* Claims on the flat buffer the banks are compared with, under SpecMemory *)

\* the size of the flat buffer and the byte indices the probed addresses
\* reach in it
FlatSize == 2 ^ MEMORY_ADDR_SIZE
FlatIdx == {(AsNat(Low21(a)) + k) % FlatSize : a \in ProbeAddrs, k \in 0..3}

\* the flat buffer that holds, at every index below its size, the byte the
\* banks hold at that address
Flat(m) == [n \in FlatIdx |-> ByteAt(m, n)]

\* the byte at addr + k of the flat buffer, and the same byte as an i8
FlatByte(f, addr, k) == f[(AsNat(Low21(addr)) + k) % FlatSize]
FlatSigned(f, addr, k) ==
    IF FlatByte(f, addr, k) >= 128 THEN FlatByte(f, addr, k) - 256
    ELSE FlatByte(f, addr, k)

\* the little-endian halfword and word at addr of the flat buffer, as i32
FlatHalf(f, addr, signed) ==
    256 * (IF signed THEN FlatSigned(f, addr, 1) ELSE FlatByte(f, addr, 1))
        + FlatByte(f, addr, 0)
FlatWord(f, addr) ==
    16777216 * FlatSigned(f, addr, 3) + 65536 * FlatByte(f, addr, 2)
        + 256 * FlatByte(f, addr, 1) + FlatByte(f, addr, 0)

\* a load of the flat buffer: word loads need a 4-aligned address, half
\* loads a 2-aligned one
FlatLoad(f, op, addr) ==
    CASE op = "LoadByte" -> [val |-> FlatSigned(f, addr, 0), fatal |-> FALSE]
      [] op = "LoadByteUnsigned" -> [val |-> FlatByte(f, addr, 0), fatal |-> FALSE]
      [] op = "LoadHalf" ->
            [val |-> FlatHalf(f, addr, TRUE), fatal |-> AddrLsbs(addr) % 2 # 0]
      [] op = "LoadHalfUnsigned" ->
            [val |-> FlatHalf(f, addr, FALSE), fatal |-> AddrLsbs(addr) % 2 # 0]
      [] op = "LoadWord" ->
            [val |-> FlatWord(f, addr), fatal |-> AddrLsbs(addr) # 0]
      [] OTHER -> [val |-> 0, fatal |-> TRUE]

\* a store of the flat buffer, with the same alignment checks
FlatStore(f, op, addr, data) ==
    LET n == CASE op = "StoreByte" -> 1 [] op = "StoreHalf" -> 2
               [] op = "StoreWord" -> 4 [] OTHER -> 0
        fatal == n = 0 \/ AddrLsbs(addr) % n # 0
        at(i) == {k \in 0..(n - 1) : (AsNat(Low21(addr)) + k) % FlatSize = i}
    IN  [mem |-> IF fatal THEN f
                 ELSE [i \in FlatIdx |->
                         IF at(i) = {} THEN f[i]
                         ELSE LET k == CHOOSE k \in at(i) : TRUE
                              IN  FieldOf(data, 8 * k + 7, 8 * k)],
         fatal |-> fatal]

\* the step is a write_data call
StoreCalled ==
    ~mem_panicked /\ mem_ops' = mem_ops + 1 /\ mem_call'.fn = "write_data"

\* C28: the four banks behave as one flat little-endian buffer of 2^21
\* bytes indexed by addr & (2^21 - 1) with the alignment checks of the
\* operations: in every memory state every load and every fetch returns
\* what the flat buffer holding the same bytes returns and is fatal when it
\* is, and every store is fatal when the flat buffer's is and otherwise
\* leaves the banks holding the bytes of the flat buffer after its store.
C28_FlatBufferEquivalent ==
    /\ [](\A addr \in ProbeAddrs :
            /\ \A op \in MemLoadOp :
                 LET c == load_data(Banks, op, addr)
                     r == FlatLoad(Flat(Banks), op, addr)
                 IN  c.panicked = r.fatal /\ (~r.fatal => c.val = r.val)
            /\ AsI32(read_pc(Banks, addr)) = FlatWord(Flat(Banks), addr))
    /\ [][StoreCalled =>
            LET c == mem_call'
                r == FlatStore(Flat(Banks), c.op, c.addr, c.data)
            IN  mem_panicked' = r.fatal /\ (~r.fatal => Flat(Banks') = r.mem)
         ]_vars

-----------------------------------------------------------------------------
(* Claims on the loader and the loop, under SpecSimulator *)

\* the byte my_mem holds at an address, and the little-endian word there
SimByte(m, n) == load_data(m, "LoadByteUnsigned", SimWindow(NatWord(n))).val
SimWord(m, n) == UNION {Shl(FromU8(SimByte(m, n + k)), 8 * k) : k \in 0..3}

\* the step is an iteration of the loop
Iterated == sim_state = "running" /\ <<sim_state, sim_pc>>' # <<sim_state, sim_pc>>

\* does the loop stop at the Instruction: at one without a mnemonic, or at
\* one without a format
Stops(inst, by_mnemonic) ==
    IF by_mnemonic THEN inst.instr.instr_op = "Invalid"
    ELSE inst.instr.instr_type = "Invalid"

\* An iteration at a word the loop stops at ends the loop and prints
\* nothing; at any other word it prints the row of the word at pc and adds 4
\* to pc, which at the last pc of the range ends in a panic in a build with
\* overflow checks and wraps to 0 in one without.
IterationPrints(by_mnemonic) ==
    LET inst == Instruction_new(SimWord(sim_mem, sim_pc))
    IN  IF Stops(inst, by_mnemonic)
        THEN /\ sim_state' = "halted"
             /\ UNCHANGED <<sim_pc, sim_rows, sim_last>>
        ELSE /\ sim_last' = [pc |-> sim_pc, row |-> inst]
             /\ sim_rows' = IF sim_rows < MaxRows THEN sim_rows + 1 ELSE sim_rows
             /\ IF sim_pc + 4 < 2 ^ SimPcBits
                THEN sim_state' = "running" /\ sim_pc' = sim_pc + 4
                ELSE IF overflow_checks
                THEN sim_state' = "panicked" /\ sim_pc' = sim_pc
                ELSE sim_state' = "running" /\ sim_pc' = 0

\* The loop starts at pc 0 with no row; until pc has walked its range the
\* rows printed are those of the words at 0, 4, ..., pc - 4, one each; and
\* the loop that ended on an all-zero memory printed none.
RowsInOrder ==
    /\ sim_state = "loading" => sim_pc = 0 /\ sim_rows = 0 /\ sim_last = None
    /\ (sim_state \in {"running", "halted"} /\ sim_rows < 2 ^ (SimPcBits - 2)) =>
          /\ sim_pc = 4 * sim_rows
          /\ sim_rows > 0 => sim_last.pc = sim_pc - 4
    /\ (sim_state = "halted" /\ sim_mem = SimMemory_new) => sim_rows = 0

\* C23 as stated: starting at pc = 0 the loop prints exactly one row per
\* fetched word, for the words at pc = 0, 4, 8, ... in increasing order, and
\* halts without printing at the first fetched word that maps to no RV32I
\* encoding (whose mnemonic is Invalid); on an all-zero memory it halts at
\* once with no rows.
C23_HaltsAtFirstUnmappedWord ==
    [](RowsInOrder) /\ [][Iterated => IterationPrints(TRUE)]_vars

\* C23 as amended: starting at pc = 0 the loop prints exactly one row per
\* fetched word, for the words at pc = 0, 4, 8, ... in increasing order, and
\* halts without printing at the first fetched word whose format is Invalid
\* (whose major opcode is unassigned); a word with an assigned opcode and an
\* unassigned funct3 gets its row and the loop goes on; on an all-zero memory
\* it halts at once with no rows.
C23_HaltsAtFirstInvalidFormat ==
    [](RowsInOrder) /\ [][Iterated => IterationPrints(FALSE)]_vars

\* the loop printed the row of the load with funct3 3 at pc 0 and halted at
\* the zero word at pc 4
C23_Witness ==
    /\ sim_state = "halted" /\ sim_pc = 4 /\ sim_rows = 1
    /\ sim_last = [pc |-> 0, row |-> Instruction_new(W(\h0000, \h3003))]
    /\ sim_last.row.instr.instr_op = "Invalid"

\* the masked addresses of the bytes of chunk i
ChunkBytes(i) ==
    {<<i, k>> : k \in 0..(Len(sim_chunks[i].data) - 1)}
ByteAddress(b) == SimWindow(NatWord(sim_chunks[b[1]].address + b[2]))

\* C26: after the chunks are loaded, the memory byte at base_address + k is
\* contents[k], for every chunk and every k below its length, unless another
\* chunk byte has the same masked address.
C26_ChunksCopied ==
    sim_state # "loading" =>
        LET all == UNION {ChunkBytes(i) : i \in 1..Len(sim_chunks)}
        IN  \A b \in all :
               (\A c \in all : c # b => ByteAddress(c) # ByteAddress(b)) =>
                   SimByte(sim_mem, sim_chunks[b[1]].address + b[2])
                       = sim_chunks[b[1]].data[b[2] + 1]

-----------------------------------------------------------------------------
(* Claim on the end of the loop, under SpecSimulatorLive *)

\* C27: for every loaded memory image the loop that starts at pc = 0,
\* fetches at the masked pc and adds 4 to pc reaches its end.
C27_LoopEnds == <>(sim_state = "halted")

=============================================================================
